---- MODULE Spec2Model ----
(***************************************************************************)
(* Model of the asynchronous execution engine of PassportAPP:              *)
(*   background_workers.py  Task, WorkerQueue, BackgroundTaskManager       *)
(*   webhook_system.py      WebhookDelivery, WebhookQueue, WebhookManager  *)
(* Threads are interleaved at the granularity of the statements that read  *)
(* or write shared state.                                                  *)
(***************************************************************************)
EXTENDS Integers, Sequences, FiniteSets, TLC

(***************************************************************************)
(* Bounds of the model.                                                    *)
(***************************************************************************)
\* worker threads spawned by one start() (num_workers, 4 in the source)
NumWorkers == 2
\* start() calls explored
MaxStarts == 2
\* submit_task calls explored, per specification
MaxTasksOrder == 3
MaxTasksRetry == 2
MaxTasksQuery == 2
\* capacity of the history ring (max_completed, 1000 in the source)
max_completed == 1
\* capacity of the delivery history (max_history, 1000 in the source)
max_history == 2
\* units of work (tasks and deliveries) created when both engines run
MaxUnits == 2
\* submit_task calls explored when stop() is called
MaxTasksStop == 3
\* deliveries created, in the registry and in the dispatcher specification
MaxTriggered == 3
MaxDeliveries == 2
\* threads calling submit_task concurrently, and the calls they make in all
NumSubmitters == 2
MaxTasksSubmit == 2
\* seconds the wall clock advances while submissions are made
MaxClock == 1

(***************************************************************************)
(* Program constants.                                                      *)
(***************************************************************************)
LOW == 0
NORMAL == 1
HIGH == 2
CRITICAL == 3
TaskMaxAttempts == 3
DeliveryMaxAttempts == 5
MaxRetryDelay == 60

None == "None"
\* response_code before any response: None
NoCode == 0
\* started_at and completed_at before they are set: None
NoTime == -1

\* Python's s[-n:] for 0 < n <= len(s), and the elements of a list
Last(s, n) == SubSeq(s, Len(s) - n + 1, Len(s))
Range(s) == {s[i] : i \in DOMAIN s}
Threads == 1..(NumWorkers * MaxStarts)
Submitters == 1..NumSubmitters

\* f"task_{counter}_{int(time.time())}": one id per (counter, second) pair
TaskId(counter, second) == counter * (MaxClock + 1) + second

VARIABLES
    \* ---- WorkerQueue / BackgroundTaskManager ----
    running,          \* WorkerQueue.running
    workers,          \* WorkerQueue.workers: the threads appended by start()
    queue,            \* WorkerQueue.queue: the heap array of the PriorityQueue
    tasks,            \* WorkerQueue.tasks: active map, task_id -> Task
    completed_tasks,  \* WorkerQueue.completed_tasks: the history list
    task_counter,     \* BackgroundTaskManager.task_counter
    taskObj,          \* the Task objects, in creation order
    wpc,              \* position of each worker thread in _worker
    wtask,            \* the local variable `task` of each worker thread
                      \* (0 once the iteration that used it is over)
    wslice,           \* the slice computed by a worker in _complete_task
    wsleep,           \* the argument of the time.sleep a worker is in (0: none)
    dropped,          \* history: Task objects that left completed_tasks
    \* ---- a client thread querying the manager ----
    qpc,              \* position of the client thread in its call
    qop, qid,         \* the call in progress and its task_id argument
    qfound,           \* what get_task_status returned to the call
    qknown,           \* history: task_id was submitted when the call began
    qres,             \* history: the outcome of the last finished call
    qstats,           \* the thread in get_queue_stats: its position, its
                      \* locals, and what its last call returned
    \* ---- WebhookQueue / WebhookManager ----
    wh_running,       \* WebhookQueue.running
    wh_workers,       \* WebhookQueue.workers
    wh_queue,         \* WebhookQueue.queue: a FIFO queue.Queue
    subscriptions,    \* WebhookManager.subscriptions, in insertion order
    delivery_history, \* WebhookManager.delivery_history
    deliveryObj,      \* the WebhookDelivery objects, in creation order
    whpc,             \* position of each webhook worker thread in _worker
    whtask,           \* the local variable `delivery` of each webhook worker
    whsleep,          \* the argument of the time.sleep a webhook worker is in
    posts,            \* history: the requests handed to requests.post, per
                      \* WebhookDelivery object, in the order they were made
    wh_ret,           \* what the last query of the WebhookManager returned
    \* ---- threads calling submit_task, and the thread calling stop ----
    clock,            \* int(time.time()), the wall clock in whole seconds
    spc,              \* position of each submitting thread in submit_task
    sreg,             \* the counter value a submitting thread has loaded
    stask,            \* the local variable `task` of each submitting thread
    stop_pc,          \* position of the stopping thread in WorkerQueue.stop
    stop_i,           \* index of the worker the stopping thread joins next
    stop_snap,        \* history: the pool at the moment stop() cleared running
    \* ---- TaskQueue (task_scheduler.py) ----
    tq_running,          \* TaskQueue.running
    tq_workers,          \* TaskQueue.workers: the threads appended by start()
    tq_queue,            \* TaskQueue.queue: a FIFO queue.Queue; 0 is None
    tq_priority_queue,   \* TaskQueue.priority_queue: the heap array
    tq_completed_tasks,  \* TaskQueue.completed_tasks
    tq_failed_tasks,     \* TaskQueue.failed_tasks
    tqObj,               \* the tasks handed to the TaskQueue, in call order
    tqpc,                \* position of each TaskQueue thread in _worker
    tqtask,              \* the local variable `task` of each TaskQueue thread
    tq_stop_i            \* the puts of None the thread in stop() has yet to do

poolVars == <<running, workers, queue, tasks, completed_tasks, task_counter,
              taskObj, wpc, wtask, wslice, wsleep, dropped>>
queryVars == <<qpc, qop, qid, qfound, qknown, qres, qstats>>
whVars == <<wh_running, wh_workers, wh_queue, subscriptions,
            delivery_history, deliveryObj, whpc, whtask, whsleep, posts,
            wh_ret>>
callerVars == <<clock, spc, sreg, stask, stop_pc, stop_i, stop_snap>>
tqVars == <<tq_running, tq_workers, tq_queue, tq_priority_queue,
            tq_completed_tasks, tq_failed_tasks, tqObj, tqpc, tqtask,
            tq_stop_i>>
vars == <<poolVars, queryVars, whVars, callerVars, tqVars>>

(***************************************************************************)
(* Task (background_workers.py).  `func` is the unit of work: the number   *)
(* of its first calls that raise; the calls after them return a value.     *)
(* A timestamp is the value of the wall clock when datetime.utcnow() is    *)
(* called.                                                                 *)
(***************************************************************************)
Task(task_id, func, priority) ==
    [task_id |-> task_id, func |-> func, priority |-> priority,
     status |-> "pending", result |-> None, error |-> None,
     created_at |-> clock, started_at |-> NoTime, completed_at |-> NoTime,
     attempts |-> 0, max_attempts |-> TaskMaxAttempts]

\* the units of work explored: 0..2 failures then success, or always failing
FuncPlans == 0..TaskMaxAttempts

\* the call self.func(*args, **kwargs) of the attempt numbered `attempt`
FuncRaises(t, attempt) == attempt <= t.func

\* Task.execute, up to the call of func
execute_begin(t) ==
    [t EXCEPT !.attempts = t.attempts + 1, !.started_at = clock,
              !.status = "running"]

\* Task.execute, from the return of func
execute_end(t) ==
    IF FuncRaises(t, t.attempts)
    THEN [t EXCEPT !.error = "error", !.status = "failed",
                   !.completed_at = clock]
    ELSE [t EXCEPT !.result = "value", !.status = "completed",
                   !.completed_at = clock]

should_retry_OffByOne(t) ==
    t.status = "failed" /\ t.attempts <= t.max_attempts
should_retry_Never(t) == FALSE
should_retry(t) == t.status = "failed" /\ t.attempts < t.max_attempts

\* Task.__lt__
Task__lt__(self, other) == self.priority > other.priority

(***************************************************************************)
(* queue.PriorityQueue of (task.priority, task) entries: heapq on a list.  *)
(* An entry is <<priority, index of the Task>>; `objs` are the Task        *)
(* objects the entries refer to; positions are 1-based.                    *)
(***************************************************************************)
\* tuple comparison (priority, task) < (priority, task)
EntryLt(objs, a, b) ==
    \/ a[1] < b[1]
    \/ /\ a[1] = b[1]
       /\ a[2] /= b[2]
       /\ Task__lt__(objs[a[2]], objs[b[2]])

RECURSIVE _siftdown(_, _, _, _, _)
_siftdown(objs, heap, startpos, pos, newitem) ==
    IF pos > startpos /\ EntryLt(objs, newitem, heap[pos \div 2])
    THEN _siftdown(objs, [heap EXCEPT ![pos] = heap[pos \div 2]], startpos,
                   pos \div 2, newitem)
    ELSE [heap EXCEPT ![pos] = newitem]

RECURSIVE _siftup_loop(_, _, _, _)
_siftup_loop(objs, heap, pos, newitem) ==
    LET endpos == Len(heap)
        leftpos == 2 * pos
        rightpos == leftpos + 1
        childpos == IF rightpos <= endpos
                       /\ ~EntryLt(objs, heap[leftpos], heap[rightpos])
                    THEN rightpos ELSE leftpos
    IN IF leftpos <= endpos
       THEN _siftup_loop(objs, [heap EXCEPT ![pos] = heap[childpos]],
                         childpos, newitem)
       ELSE _siftdown(objs, heap, 1, pos, newitem)

_siftup(objs, heap, pos) == _siftup_loop(objs, heap, pos, heap[pos])

heappush(objs, heap, item) ==
    _siftdown(objs, Append(heap, item), 1, Len(heap) + 1, item)

\* the item heappop returns, and the heap it leaves
heappop_item(heap) == heap[1]
heappop_rest(objs, heap) ==
    LET lastelt == heap[Len(heap)]
        rest == SubSeq(heap, 1, Len(heap) - 1)
    IN IF rest = <<>> THEN rest
       ELSE _siftup(objs, [rest EXCEPT ![1] = lastelt], 1)

\* the Task objects that have an entry in the queue
Queued == {queue[i][2] : i \in DOMAIN queue}

(***************************************************************************)
(* Initial states.                                                         *)
(***************************************************************************)
\* no call of the client thread is in progress, none has returned
NoResult ==
    [op |-> None, id |-> 0, kind |-> None, task |-> 0, status |-> None,
     attempts |-> 0, value |-> None, known |-> FALSE]
\* no get_queue_stats call is in progress, none has returned
NoStats ==
    [pc |-> "idle", total_completed |-> 0, successful |-> 0,
     returned |-> FALSE,
     value |-> [active |-> 0, queued |-> 0, completed |-> 0,
                successful |-> 0, failed |-> 0, workers |-> 0]]
InitQuery ==
    /\ qpc = "idle" /\ qop = None /\ qid = 0 /\ qfound = 0 /\ qknown = FALSE
    /\ qres = NoResult
    /\ qstats = NoStats

\* no submit_task call and no stop() call is in progress; the clock reads 0
NoStop ==
    [called |-> FALSE, pre |-> FALSE, queued |-> {}, inflight |-> {},
     objs |-> <<>>]
InitCallers ==
    /\ clock = 0
    /\ spc = [s \in Submitters |-> "idle"]
    /\ sreg = [s \in Submitters |-> 0]
    /\ stask = [s \in Submitters |-> 0]
    /\ stop_pc = "idle" /\ stop_i = 0 /\ stop_snap = NoStop

\* task_queue = TaskQueue(max_workers), not started
InitTaskQueue ==
    /\ tq_running = FALSE
    /\ tq_workers = <<>>
    /\ tq_queue = <<>>
    /\ tq_priority_queue = <<>>
    /\ tq_completed_tasks = <<>>
    /\ tq_failed_tasks = <<>>
    /\ tqObj = <<>>
    /\ tqpc = [w \in Threads |-> "unborn"]
    /\ tqtask = [w \in Threads |-> 0]
    /\ tq_stop_i = 0

\* BackgroundTaskManager(num_workers), not started
InitPool ==
    /\ running = FALSE
    /\ workers = <<>>
    /\ queue = <<>>
    /\ tasks = <<>>
    /\ completed_tasks = <<>>
    /\ task_counter = 0
    /\ taskObj = <<>>
    /\ wpc = [w \in Threads |-> "unborn"]
    /\ wtask = [w \in Threads |-> 0]
    /\ wslice = [w \in Threads |-> <<>>]
    /\ wsleep = [w \in Threads |-> 0]
    /\ dropped = {}

\* init_background_workers(num_workers): constructed and started
InitStartedPool ==
    /\ running = TRUE
    /\ workers = [i \in 1..NumWorkers |-> i]
    /\ queue = <<>>
    /\ tasks = <<>>
    /\ completed_tasks = <<>>
    /\ task_counter = 0
    /\ taskObj = <<>>
    /\ wpc = [w \in Threads |-> IF w <= NumWorkers THEN "loop" ELSE "unborn"]
    /\ wtask = [w \in Threads |-> 0]
    /\ wslice = [w \in Threads |-> <<>>]
    /\ wsleep = [w \in Threads |-> 0]
    /\ dropped = {}

(***************************************************************************)
(* WorkerQueue.start, WorkerQueue.stop                                     *)
(***************************************************************************)
\* the threads one start() call creates, given the threads created so far
start_spawned(ws) == [i \in 1..NumWorkers |-> Len(ws) + i]

start ==
    /\ Len(workers) + NumWorkers <= NumWorkers * MaxStarts
    /\ running' = TRUE
    /\ workers' = workers \o start_spawned(workers)
    /\ wpc' = [w \in Threads |->
                 IF \E i \in 1..Len(start_spawned(workers)) :
                        start_spawned(workers)[i] = w
                 THEN "loop" ELSE wpc[w]]
    /\ UNCHANGED <<queue, tasks, completed_tasks, task_counter, taskObj,
                   wtask, wslice, dropped, wsleep>>
    /\ UNCHANGED <<queryVars, whVars, callerVars, tqVars>>

\* the workers that are inside task.execute(), between the call of func and
\* its return, and the units they execute
Executing == {w \in Range(workers) : wpc[w] = "func"}
InFlight == {wtask[w] : w \in Executing}

\* stop(): self.running = False
stop_signal ==
    /\ stop_pc = "idle"
    /\ running' = FALSE
    /\ stop_pc' = "join"
    /\ stop_i' = 1
    /\ stop_snap' = [called |-> TRUE,
                     pre |-> (Executing = Range(workers)
                                 /\ queue /= <<>>),
                     queued |-> {queue[i][2] : i \in DOMAIN queue},
                     inflight |-> InFlight,
                     objs |-> taskObj]
    /\ UNCHANGED <<workers, queue, tasks, completed_tasks, task_counter,
                   taskObj, wpc, wtask, wslice, dropped, wsleep>>
    /\ UNCHANGED <<clock, spc, sreg, stask>>
    /\ UNCHANGED <<queryVars, whVars, tqVars>>

\* stop(): worker.join(timeout=5) returns, the worker ended or the 5 s over
stop_join ==
    /\ stop_pc = "join"
    /\ stop_i <= Len(workers)
    /\ stop_i' = stop_i + 1
    /\ UNCHANGED <<clock, spc, sreg, stask, stop_pc, stop_snap>>
    /\ UNCHANGED <<poolVars, queryVars, whVars, tqVars>>

\* stop(): the loop over self.workers is over, stop() returns
stop_return ==
    /\ stop_pc = "join"
    /\ stop_i > Len(workers)
    /\ stop_pc' = "returned"
    /\ UNCHANGED <<clock, spc, sreg, stask, stop_i, stop_snap>>
    /\ UNCHANGED <<poolVars, queryVars, whVars, tqVars>>

stop == stop_signal \/ stop_join \/ stop_return

(***************************************************************************)
(* BackgroundTaskManager.submit_task and WorkerQueue.enqueue               *)
(***************************************************************************)
\* the active map with tasks[task_id] = t
MapPut(m, k, v) == [x \in DOMAIN m \cup {k} |-> IF x = k THEN v ELSE m[x]]
MapDel(m, k) == [x \in DOMAIN m \ {k} |-> m[x]]

submit_task(func, priority) ==
    LET task_id == TaskId(task_counter + 1, clock)
        t == Len(taskObj) + 1
    IN /\ task_counter' = task_counter + 1
       /\ taskObj' = Append(taskObj, Task(task_id, func, priority))
       /\ tasks' = MapPut(tasks, task_id, t)
       /\ queue' = heappush(taskObj', queue, <<priority, t>>)
       /\ UNCHANGED <<running, workers, completed_tasks, wpc, wtask, wslice,
                      dropped, wsleep>>
       /\ UNCHANGED <<queryVars, whVars, callerVars, tqVars>>

(***************************************************************************)
(* submit_task called by several threads: the steps of one call that read  *)
(* or write the manager or the queue.                                      *)
(***************************************************************************)
\* calls of submit_task that have begun
SubmitCalls ==
    Len(taskObj)
        + Cardinality({s \in Submitters : spc[s] \in {"store", "task_id"}})

\* self.task_counter += 1: the read of the attribute
submit_load(s) ==
    /\ spc[s] = "idle"
    /\ sreg' = [sreg EXCEPT ![s] = task_counter]
    /\ spc' = [spc EXCEPT ![s] = "store"]
    /\ UNCHANGED <<clock, stask, stop_pc, stop_i, stop_snap>>
    /\ UNCHANGED <<poolVars, queryVars, whVars, tqVars>>

\* self.task_counter += 1: the write of the sum
submit_store(s) ==
    /\ spc[s] = "store"
    /\ task_counter' = sreg[s] + 1
    /\ spc' = [spc EXCEPT ![s] = "task_id"]
    /\ sreg' = [sreg EXCEPT ![s] = 0]
    /\ UNCHANGED <<running, workers, queue, tasks, completed_tasks, taskObj,
                   wpc, wtask, wslice, dropped, wsleep>>
    /\ UNCHANGED <<clock, stask, stop_pc, stop_i, stop_snap>>
    /\ UNCHANGED <<queryVars, whVars, tqVars>>

\* task_id = f"task_{self.task_counter}_{int(time.time())}"; task = Task(...)
submit_task_id(s, func, priority) ==
    /\ spc[s] = "task_id"
    /\ taskObj' = Append(taskObj,
                         Task(TaskId(task_counter, clock), func, priority))
    /\ stask' = [stask EXCEPT ![s] = Len(taskObj) + 1]
    /\ spc' = [spc EXCEPT ![s] = "enqueue"]
    /\ UNCHANGED <<running, workers, queue, tasks, completed_tasks,
                   task_counter, wpc, wtask, wslice, dropped, wsleep>>
    /\ UNCHANGED <<clock, sreg, stop_pc, stop_i, stop_snap>>
    /\ UNCHANGED <<queryVars, whVars, tqVars>>

\* enqueue: self.tasks[task.task_id] = task
enqueue_tasks(s) ==
    /\ spc[s] = "enqueue"
    /\ tasks' = MapPut(tasks, taskObj[stask[s]].task_id, stask[s])
    /\ spc' = [spc EXCEPT ![s] = "put"]
    /\ UNCHANGED <<running, workers, queue, completed_tasks, task_counter,
                   taskObj, wpc, wtask, wslice, dropped, wsleep>>
    /\ UNCHANGED <<clock, sreg, stask, stop_pc, stop_i, stop_snap>>
    /\ UNCHANGED <<queryVars, whVars, tqVars>>

\* enqueue: self.queue.put((task.priority, task)); return task.task_id
enqueue_put(s) ==
    /\ spc[s] = "put"
    /\ queue' = heappush(taskObj, queue,
                         <<taskObj[stask[s]].priority, stask[s]>>)
    /\ spc' = [spc EXCEPT ![s] = "idle"]
    /\ stask' = [stask EXCEPT ![s] = 0]
    /\ UNCHANGED <<running, workers, tasks, completed_tasks, task_counter,
                   taskObj, wpc, wtask, wslice, dropped, wsleep>>
    /\ UNCHANGED <<clock, sreg, stop_pc, stop_i, stop_snap>>
    /\ UNCHANGED <<queryVars, whVars, tqVars>>

\* the wall clock reaches the next second
tick ==
    /\ clock < MaxClock
    /\ clock' = clock + 1
    /\ UNCHANGED <<spc, sreg, stask, stop_pc, stop_i, stop_snap>>
    /\ UNCHANGED <<poolVars, queryVars, whVars, tqVars>>

(***************************************************************************)
(* WorkerQueue._worker, one action per step of the loop                    *)
(***************************************************************************)
worker_loop_Forever(w) ==
    /\ wpc[w] = "loop"
    /\ wpc' = [wpc EXCEPT ![w] = "get"]
    /\ UNCHANGED <<running, workers, queue, tasks, completed_tasks,
                   task_counter, taskObj, wtask, wslice, dropped, wsleep>>
    /\ UNCHANGED <<queryVars, whVars, callerVars, tqVars>>
\* while self.running:
worker_loop(w) ==
    /\ wpc[w] = "loop"
    /\ wpc' = [wpc EXCEPT ![w] = IF running THEN "get" ELSE "exit"]
    /\ UNCHANGED <<running, workers, queue, tasks, completed_tasks,
                   task_counter, taskObj, wtask, wslice, dropped, wsleep>>
    /\ UNCHANGED <<queryVars, whVars, callerVars, tqVars>>

worker_get_Peek(w) ==
    /\ wpc[w] = "get"
    /\ queue /= <<>>
    /\ wtask' = [wtask EXCEPT ![w] = heappop_item(queue)[2]]
    /\ wpc' = [wpc EXCEPT ![w] = "execute"]
    /\ UNCHANGED <<running, workers, queue, tasks, completed_tasks,
                   task_counter, taskObj, wslice, dropped, wsleep>>
    /\ UNCHANGED <<queryVars, whVars, callerVars, tqVars>>
\* priority, task = self.queue.get(timeout=1)
worker_get(w) ==
    /\ wpc[w] = "get"
    /\ queue /= <<>>
    /\ wtask' = [wtask EXCEPT ![w] = heappop_item(queue)[2]]
    /\ queue' = heappop_rest(taskObj, queue)
    /\ wpc' = [wpc EXCEPT ![w] = "execute"]
    /\ UNCHANGED <<running, workers, tasks, completed_tasks, task_counter,
                   taskObj, wslice, dropped, wsleep>>
    /\ UNCHANGED <<queryVars, whVars, callerVars, tqVars>>

\* except queue.Empty: continue
worker_get_empty(w) ==
    /\ wpc[w] = "get"
    /\ queue = <<>>
    /\ wpc' = [wpc EXCEPT ![w] = "loop"]
    /\ UNCHANGED <<running, workers, queue, tasks, completed_tasks,
                   task_counter, taskObj, wtask, wslice, dropped, wsleep>>
    /\ UNCHANGED <<queryVars, whVars, callerVars, tqVars>>

\* task.execute(): attempts, started_at, status = 'running'
worker_execute_begin(w) ==
    /\ wpc[w] = "execute"
    /\ taskObj' = [taskObj EXCEPT ![wtask[w]] = execute_begin(@)]
    /\ wpc' = [wpc EXCEPT ![w] = "func"]
    /\ UNCHANGED <<running, workers, queue, tasks, completed_tasks,
                   task_counter, wtask, wslice, dropped, wsleep>>
    /\ UNCHANGED <<queryVars, whVars, callerVars, tqVars>>

worker_execute_end_RequeueAtOnce(w) ==
    /\ wpc[w] = "func"
    /\ taskObj' = [taskObj EXCEPT ![wtask[w]] = execute_end(@)]
    /\ IF execute_end(taskObj[wtask[w]]).status /= "completed"
          /\ should_retry(execute_end(taskObj[wtask[w]]))
       THEN /\ wpc' = [wpc EXCEPT ![w] = "loop"]
            /\ wtask' = [wtask EXCEPT ![w] = 0]
            /\ queue' = heappush(taskObj', queue,
                                 <<taskObj[wtask[w]].priority, wtask[w]>>)
       ELSE /\ wpc' = [wpc EXCEPT ![w] = "complete_del"]
            /\ UNCHANGED <<wtask, queue>>
    /\ UNCHANGED <<running, workers, tasks, completed_tasks,
                   task_counter, wslice, dropped, wsleep>>
    /\ UNCHANGED <<queryVars, whVars, callerVars, tqVars>>
worker_execute_end_Propagates(w) ==
    /\ wpc[w] = "func"
    /\ taskObj' = [taskObj EXCEPT ![wtask[w]] = execute_end(@)]
    /\ wpc' = [wpc EXCEPT ![w] =
                 IF execute_end(taskObj[wtask[w]]).status /= "completed"
                 THEN "exit" ELSE "complete_del"]
    /\ UNCHANGED <<running, workers, queue, tasks, completed_tasks,
                   task_counter, wtask, wslice, dropped, wsleep>>
    /\ UNCHANGED <<queryVars, whVars, callerVars, tqVars>>

backoff_FromZero(task) == 2 ^ (task.attempts - 1)
\* the argument of time.sleep in _worker: 2 ** task.attempts
backoff(task) == 2 ^ task.attempts

\* task.execute(): func returns or raises; then the retry decision and, for
\* a retry, the call time.sleep(2 ** task.attempts)
worker_execute_end(w) ==
    /\ wpc[w] = "func"
    /\ taskObj' = [taskObj EXCEPT ![wtask[w]] = execute_end(@)]
    /\ IF execute_end(taskObj[wtask[w]]).status /= "completed"
          /\ should_retry(execute_end(taskObj[wtask[w]]))
       THEN /\ wpc' = [wpc EXCEPT ![w] = "sleep"]
            /\ wsleep' = [wsleep EXCEPT
                            ![w] = backoff(execute_end(taskObj[wtask[w]]))]
       ELSE /\ wpc' = [wpc EXCEPT ![w] = "complete_del"]
            /\ UNCHANGED wsleep
    /\ UNCHANGED <<running, workers, queue, tasks, completed_tasks,
                   task_counter, wtask, wslice, dropped>>
    /\ UNCHANGED <<queryVars, whVars, callerVars, tqVars>>

\* time.sleep returns; self.queue.put((task.priority, task))
worker_requeue(w) ==
    /\ wpc[w] = "sleep"
    /\ queue' = heappush(taskObj, queue,
                         <<taskObj[wtask[w]].priority, wtask[w]>>)
    /\ wpc' = [wpc EXCEPT ![w] = "loop"]
    /\ wtask' = [wtask EXCEPT ![w] = 0]
    /\ wsleep' = [wsleep EXCEPT ![w] = 0]
    /\ UNCHANGED <<running, workers, tasks, completed_tasks, task_counter,
                   taskObj, wslice, dropped>>
    /\ UNCHANGED <<queryVars, whVars, callerVars, tqVars>>

\* _complete_task: if task.task_id in self.tasks: del self.tasks[task.task_id]
complete_del(w) ==
    /\ wpc[w] = "complete_del"
    /\ tasks' = MapDel(tasks, taskObj[wtask[w]].task_id)
    /\ wpc' = [wpc EXCEPT ![w] = "complete_append"]
    /\ UNCHANGED <<running, workers, queue, completed_tasks, task_counter,
                   taskObj, wtask, wslice, dropped, wsleep>>
    /\ UNCHANGED <<queryVars, whVars, callerVars, tqVars>>

\* _complete_task: self.completed_tasks.append(task)
complete_append(w) ==
    /\ wpc[w] = "complete_append"
    /\ completed_tasks' = Append(completed_tasks, wtask[w])
    /\ wpc' = [wpc EXCEPT ![w] = "complete_trim"]
    /\ UNCHANGED <<running, workers, queue, tasks, task_counter, taskObj,
                   wtask, wslice, dropped, wsleep>>
    /\ UNCHANGED <<queryVars, whVars, callerVars, tqVars>>

\* _complete_task: the length test and the slice [-max_completed:]
complete_trim(w) ==
    /\ wpc[w] = "complete_trim"
    /\ IF Len(completed_tasks) > max_completed
       THEN /\ wslice' = [wslice EXCEPT
                            ![w] = Last(completed_tasks, max_completed)]
            /\ wpc' = [wpc EXCEPT ![w] = "complete_assign"]
            /\ UNCHANGED wtask
       ELSE /\ wpc' = [wpc EXCEPT ![w] = "loop"]
            /\ wtask' = [wtask EXCEPT ![w] = 0]
            /\ UNCHANGED wslice
    /\ UNCHANGED <<running, workers, queue, tasks, completed_tasks,
                   task_counter, taskObj, dropped, wsleep>>
    /\ UNCHANGED <<queryVars, whVars, callerVars, tqVars>>

\* _complete_task: self.completed_tasks = <the slice>
complete_assign(w) ==
    /\ wpc[w] = "complete_assign"
    /\ completed_tasks' = wslice[w]
    /\ dropped' = dropped \cup (Range(completed_tasks) \ Range(wslice[w]))
    /\ wslice' = [wslice EXCEPT ![w] = <<>>]
    /\ wtask' = [wtask EXCEPT ![w] = 0]
    /\ wpc' = [wpc EXCEPT ![w] = "loop"]
    /\ UNCHANGED <<running, workers, queue, tasks, task_counter, taskObj, wsleep>>
    /\ UNCHANGED <<queryVars, whVars, callerVars, tqVars>>

_worker(w) ==
    \/ worker_loop(w)
    \/ worker_get(w)
    \/ worker_get_empty(w)
    \/ worker_execute_begin(w)
    \/ worker_execute_end(w)
    \/ worker_requeue(w)
    \/ complete_del(w)
    \/ complete_append(w)
    \/ complete_trim(w)
    \/ complete_assign(w)

(***************************************************************************)
(* WebhookDelivery (webhook_system.py)                                     *)
(***************************************************************************)
WebhookDelivery(webhook_id, url, event, payload, secret) ==
    [webhook_id |-> webhook_id, url |-> url, event |-> event,
     payload |-> payload, secret |-> secret,
     attempts |-> 0, max_attempts |-> DeliveryMaxAttempts,
     status |-> "pending", response_code |-> NoCode,
     response_body |-> None]

\* the payloads handed to trigger_event: a JSON-serialisable dict, and a
\* dict that holds a value json.dumps rejects with TypeError (a datetime)
Payloads == {"data", "datetime"}
json_dumps_raises(payload) == payload = "datetime"

\* what requests.post can do: answer with a status code, or raise
StatusCodes == {200, 299, 300, 500}
Raised == {"Timeout", "ConnectionError", "Exception"}
Responses ==
    [kind : {"Response"}, status_code : StatusCodes]
        \cup [kind : Raised, status_code : {NoCode}]

send_begin_Twice(d) == [d EXCEPT !.attempts = d.attempts + 2]
\* WebhookDelivery.send, up to the request
send_begin(d) == [d EXCEPT !.attempts = d.attempts + 1]

\* str(n) of a non-negative integer: its decimal digits, as characters
Digits == <<"0", "1", "2", "3", "4", "5", "6", "7", "8", "9">>
RECURSIVE str(_)
str(n) ==
    IF n < 10 THEN <<Digits[n + 1]>>
    ELSE str(n \div 10) \o <<Digits[(n % 10) + 1]>>

\* the envelope built by send(); `now` is datetime.utcnow()
webhook_payload(d, now) ==
    [event |-> d.event, timestamp |-> now, webhook_id |-> d.webhook_id,
     data |-> d.payload]

\* json.dumps of the envelope: the members of the object in insertion
\* order, each a key with its value
json_dumps(o) ==
    <<<<"event", o.event>>, <<"timestamp", o.timestamp>>,
      <<"webhook_id", o.webhook_id>>, <<"data", o.data>>>>

\* hmac.new(key, msg, hashlib.sha256).hexdigest(): the digest is kept as
\* the term of its two inputs, so equal digests mean equal key and message
hmac_sha256_hex(key, msg) == [key |-> key, msg |-> msg]

generate_signature_Unkeyed(d, payload_str) ==
    hmac_sha256_hex("", payload_str)
\* WebhookDelivery.generate_signature, for a delivery that has a secret
generate_signature(d, payload_str) ==
    hmac_sha256_hex(d.secret, payload_str)

\* the headers send() prepares for the body payload_str
send_headers(d, payload_str) ==
    LET headers ==
            ("Content-Type" :> "application/json")
            @@ ("User-Agent" :> "PassportApp-Webhook/1.0")
            @@ ("X-Webhook-Event" :> d.event)
            @@ ("X-Webhook-ID" :> d.webhook_id)
            @@ ("X-Webhook-Attempt" :> str(d.attempts))
    IN IF d.secret /= None /\ d.secret /= ""
       THEN headers @@ ("X-Webhook-Signature" :>
                           <<"sha256=", generate_signature(d, payload_str)>>)
       ELSE headers

\* the arguments of requests.post(self.url, data=payload_str, headers=...)
send_request(d, now) ==
    [url |-> d.url,
     data |-> json_dumps(webhook_payload(d, now)),
     headers |-> send_headers(d, json_dumps(webhook_payload(d, now)))]

send_end_Inclusive300(d, resp) ==
    IF resp.kind = "Response"
    THEN [d EXCEPT !.response_code = resp.status_code,
                   !.response_body = "text",
                   !.status = IF 200 <= resp.status_code
                                 /\ resp.status_code <= 300
                              THEN "delivered" ELSE "failed"]
    ELSE [d EXCEPT !.status = "error", !.response_body = "str(e)"]
\* WebhookDelivery.send, from the outcome of requests.post
send_end(d, resp) ==
    IF resp.kind = "Response"
    THEN [d EXCEPT !.response_code = resp.status_code,
                   !.response_body = "text",
                   !.status = IF 200 <= resp.status_code
                                 /\ resp.status_code < 300
                              THEN "delivered" ELSE "failed"]
    ELSE IF resp.kind = "Timeout"
    THEN [d EXCEPT !.status = "timeout", !.response_body = "Request timeout"]
    ELSE IF resp.kind = "ConnectionError"
    THEN [d EXCEPT !.status = "connection_error",
                   !.response_body = "Connection error"]
    ELSE [d EXCEPT !.status = "error", !.response_body = "str(e)"]

\* the value send returns
send_success(d, resp) == send_end(d, resp).status = "delivered"

delivery_should_retry_OffByOne(d) ==
    d.status /= "delivered" /\ d.attempts <= d.max_attempts
delivery_should_retry(d) ==
    IF d.status = "delivered" THEN FALSE
    ELSE IF d.attempts >= d.max_attempts THEN FALSE
    ELSE TRUE

Min(a, b) == IF a < b THEN a ELSE b
get_retry_delay(d) ==
    IF d.attempts = 0 THEN 0
    ELSE Min(2 ^ (d.attempts - 1), MaxRetryDelay)

(***************************************************************************)
(* WebhookQueue and WebhookManager                                         *)
(***************************************************************************)
\* WebhookManager(), module level: constructed, not started
InitWebhook ==
    /\ wh_running = FALSE
    /\ wh_workers = <<>>
    /\ wh_queue = <<>>
    /\ subscriptions = <<>>
    /\ delivery_history = <<>>
    /\ deliveryObj = <<>>
    /\ whpc = [w \in Threads |-> "unborn"]
    /\ whtask = [w \in Threads |-> 0]
    /\ whsleep = [w \in Threads |-> 0]
    /\ posts = <<>>
    /\ wh_ret = [op |-> "none", value |-> <<>>]

\* init_webhooks(): the module-level manager, started
InitStartedWebhook ==
    /\ wh_running = TRUE
    /\ wh_workers = [i \in 1..NumWorkers |-> i]
    /\ wh_queue = <<>>
    /\ subscriptions = <<>>
    /\ delivery_history = <<>>
    /\ deliveryObj = <<>>
    /\ whpc = [w \in Threads |-> IF w <= NumWorkers THEN "loop" ELSE "unborn"]
    /\ whtask = [w \in Threads |-> 0]
    /\ whsleep = [w \in Threads |-> 0]
    /\ posts = <<>>
    /\ wh_ret = [op |-> "none", value |-> <<>>]

\* WebhookQueue.start
wh_start ==
    /\ Len(wh_workers) + NumWorkers <= NumWorkers * MaxStarts
    /\ wh_running' = TRUE
    /\ wh_workers' = wh_workers \o start_spawned(wh_workers)
    /\ whpc' = [w \in Threads |->
                  IF \E i \in 1..Len(start_spawned(wh_workers)) :
                         start_spawned(wh_workers)[i] = w
                  THEN "loop" ELSE whpc[w]]
    /\ UNCHANGED <<wh_queue, subscriptions, delivery_history, deliveryObj,
                   whtask, whsleep, posts, wh_ret>>
    /\ UNCHANGED <<poolVars, queryVars, callerVars, tqVars>>

\* WebhookQueue.stop
wh_stop ==
    /\ wh_running
    /\ wh_running' = FALSE
    /\ UNCHANGED <<wh_workers, wh_queue, subscriptions, delivery_history,
                   deliveryObj, whpc, whtask, whsleep, posts, wh_ret>>
    /\ UNCHANGED <<poolVars, queryVars, callerVars, tqVars>>

\* the position of webhook_id in the subscriptions dict, 0 if absent
SubIndex(subs, webhook_id) ==
    IF \E i \in DOMAIN subs : subs[i].webhook_id = webhook_id
    THEN CHOOSE i \in DOMAIN subs : subs[i].webhook_id = webhook_id
    ELSE 0

subscribe_Append(webhook_id, url, events, secret) ==
    /\ subscriptions' =
          Append(subscriptions,
                 [webhook_id |-> webhook_id, url |-> url, events |-> events,
                  secret |-> secret, active |-> TRUE])
    /\ UNCHANGED <<wh_running, wh_workers, wh_queue, delivery_history,
                   deliveryObj, whpc, whtask, whsleep, posts, wh_ret>>
    /\ UNCHANGED <<poolVars, queryVars, callerVars, tqVars>>
subscribe_KeepActive(webhook_id, url, events, secret) ==
    LET i == SubIndex(subscriptions, webhook_id)
        sub == [webhook_id |-> webhook_id, url |-> url, events |-> events,
                secret |-> secret,
                active |-> IF i = 0 THEN TRUE ELSE subscriptions[i].active]
    IN /\ subscriptions' = IF i = 0 THEN Append(subscriptions, sub)
                           ELSE [subscriptions EXCEPT ![i] = sub]
       /\ UNCHANGED <<wh_running, wh_workers, wh_queue, delivery_history,
                      deliveryObj, whpc, whtask, whsleep, posts, wh_ret>>
       /\ UNCHANGED <<poolVars, queryVars, callerVars, tqVars>>
\* WebhookManager.subscribe: the entry of webhook_id is replaced as a whole
subscribe(webhook_id, url, events, secret) ==
    LET sub == [webhook_id |-> webhook_id, url |-> url, events |-> events,
                secret |-> secret, active |-> TRUE]
        i == SubIndex(subscriptions, webhook_id)
    IN /\ subscriptions' = IF i = 0 THEN Append(subscriptions, sub)
                           ELSE [subscriptions EXCEPT ![i] = sub]
       /\ UNCHANGED <<wh_running, wh_workers, wh_queue, delivery_history,
                      deliveryObj, whpc, whtask, whsleep, posts, wh_ret>>
       /\ UNCHANGED <<poolVars, queryVars, callerVars, tqVars>>

\* the value unsubscribe returns
unsubscribe_result(webhook_id) == SubIndex(subscriptions, webhook_id) /= 0

unsubscribe_Remove(webhook_id) ==
    /\ subscriptions' =
          SelectSeq(subscriptions, LAMBDA sub : sub.webhook_id /= webhook_id)
    /\ UNCHANGED <<wh_running, wh_workers, wh_queue, delivery_history,
                   deliveryObj, whpc, whtask, whsleep, posts, wh_ret>>
    /\ UNCHANGED <<poolVars, queryVars, callerVars, tqVars>>
\* WebhookManager.unsubscribe
unsubscribe(webhook_id) ==
    LET i == SubIndex(subscriptions, webhook_id)
    IN /\ subscriptions' = IF i = 0 THEN subscriptions
                           ELSE [subscriptions EXCEPT ![i].active = FALSE]
       /\ UNCHANGED <<wh_running, wh_workers, wh_queue, delivery_history,
                      deliveryObj, whpc, whtask, whsleep, posts, wh_ret>>
       /\ UNCHANGED <<poolVars, queryVars, callerVars, tqVars>>

RECURSIVE Matching_Wildcard(_, _)
Matching_Wildcard(subs, event) ==
    IF subs = <<>> THEN <<>>
    ELSE IF Head(subs).active
            /\ (event \in Head(subs).events \/ "passport.*" \in Head(subs).events)
         THEN <<Head(subs)>> \o Matching_Wildcard(Tail(subs), event)
         ELSE Matching_Wildcard(Tail(subs), event)
RECURSIVE Matching_Inactive(_, _)
Matching_Inactive(subs, event) ==
    IF subs = <<>> THEN <<>>
    ELSE IF event \in Head(subs).events
         THEN <<Head(subs)>> \o Matching_Inactive(Tail(subs), event)
         ELSE Matching_Inactive(Tail(subs), event)
\* the subscriptions trigger_event creates a delivery for, in dict order
RECURSIVE Matching(_, _)
Matching(subs, event) ==
    IF subs = <<>> THEN <<>>
    ELSE IF Head(subs).active /\ event \in Head(subs).events
         THEN <<Head(subs)>> \o Matching(Tail(subs), event)
         ELSE Matching(Tail(subs), event)

\* WebhookManager._add_to_history, for the deliveries of one trigger
RECURSIVE _add_to_history(_, _)
_add_to_history(history, ds) ==
    IF ds = <<>> THEN history
    ELSE LET h == Append(history, Head(ds))
         IN _add_to_history(IF Len(h) > max_history
                            THEN Last(h, max_history) ELSE h, Tail(ds))

\* WebhookManager.trigger_event
trigger_event(event, payload) ==
    LET m == Matching(subscriptions, event)
        created == [i \in 1..Len(m) |->
                      WebhookDelivery(m[i].webhook_id, m[i].url, event,
                                      payload, m[i].secret)]
        ds == [i \in 1..Len(m) |-> Len(deliveryObj) + i]
    IN /\ deliveryObj' = deliveryObj \o created
       /\ wh_queue' = wh_queue \o ds
       /\ delivery_history' = _add_to_history(delivery_history, ds)
       /\ posts' = posts \o [i \in 1..Len(m) |-> <<>>]
       /\ UNCHANGED <<wh_running, wh_workers, subscriptions, whpc, whtask,
                      whsleep, wh_ret>>
       /\ UNCHANGED <<poolVars, queryVars, callerVars, tqVars>>

\* WebhookQueue._worker: while self.running:
wh_worker_loop(w) ==
    /\ whpc[w] = "loop"
    /\ whpc' = [whpc EXCEPT ![w] = IF wh_running THEN "get" ELSE "exit"]
    /\ UNCHANGED <<wh_running, wh_workers, wh_queue, subscriptions,
                   delivery_history, deliveryObj, whtask, whsleep, posts, wh_ret>>
    /\ UNCHANGED <<poolVars, queryVars, callerVars, tqVars>>

\* delivery = self.queue.get(timeout=1)
wh_worker_get(w) ==
    /\ whpc[w] = "get"
    /\ wh_queue /= <<>>
    /\ whtask' = [whtask EXCEPT ![w] = Head(wh_queue)]
    /\ wh_queue' = Tail(wh_queue)
    /\ whpc' = [whpc EXCEPT ![w] = "send"]
    /\ UNCHANGED <<wh_running, wh_workers, subscriptions, delivery_history,
                   deliveryObj, whsleep, posts, wh_ret>>
    /\ UNCHANGED <<poolVars, queryVars, callerVars, tqVars>>

\* except queue.Empty: continue
wh_worker_get_empty(w) ==
    /\ whpc[w] = "get"
    /\ wh_queue = <<>>
    /\ whpc' = [whpc EXCEPT ![w] = "loop"]
    /\ UNCHANGED <<wh_running, wh_workers, wh_queue, subscriptions,
                   delivery_history, deliveryObj, whtask, whsleep, posts, wh_ret>>
    /\ UNCHANGED <<poolVars, queryVars, callerVars, tqVars>>

\* delivery.send(): attempts, then json.dumps of the envelope and the
\* headers; a TypeError of json.dumps leaves send() and is caught by the
\* worker's "except Exception", which prints it and goes on with the loop
wh_worker_send_begin(w) ==
    /\ whpc[w] = "send"
    /\ deliveryObj' = [deliveryObj EXCEPT ![whtask[w]] = send_begin(@)]
    /\ IF json_dumps_raises(deliveryObj[whtask[w]].payload)
       THEN /\ whpc' = [whpc EXCEPT ![w] = "loop"]
            /\ whtask' = [whtask EXCEPT ![w] = 0]
            /\ UNCHANGED posts
       ELSE /\ whpc' = [whpc EXCEPT ![w] = "post"]
            /\ posts' = [posts EXCEPT ![whtask[w]] =
                           Append(@, send_request(
                               send_begin(deliveryObj[whtask[w]]), clock))]
            /\ UNCHANGED whtask
    /\ UNCHANGED <<wh_running, wh_workers, wh_queue, subscriptions,
                   delivery_history, whsleep, wh_ret>>
    /\ UNCHANGED <<poolVars, queryVars, callerVars, tqVars>>

\* delivery.send(): requests.post ends with resp; then the retry decision
\* and, for a retry, the call time.sleep(delivery.get_retry_delay())
wh_worker_post(w, resp) ==
    /\ whpc[w] = "post"
    /\ deliveryObj' = [deliveryObj EXCEPT ![whtask[w]] = send_end(@, resp)]
    /\ IF ~send_success(deliveryObj[whtask[w]], resp)
          /\ delivery_should_retry(send_end(deliveryObj[whtask[w]], resp))
       THEN /\ whpc' = [whpc EXCEPT ![w] = "sleep"]
            /\ whsleep' = [whsleep EXCEPT ![w] = get_retry_delay(
                              send_end(deliveryObj[whtask[w]], resp))]
            /\ UNCHANGED whtask
       ELSE /\ whpc' = [whpc EXCEPT ![w] = "loop"]
            /\ whtask' = [whtask EXCEPT ![w] = 0]
            /\ UNCHANGED whsleep
    /\ UNCHANGED <<wh_running, wh_workers, wh_queue, subscriptions,
                   delivery_history, posts, wh_ret>>
    /\ UNCHANGED <<poolVars, queryVars, callerVars, tqVars>>

wh_worker_send_end(w) == \E resp \in Responses : wh_worker_post(w, resp)

\* time.sleep(retry_delay) returns; self.queue.put(delivery)
wh_worker_requeue(w) ==
    /\ whpc[w] = "sleep"
    /\ wh_queue' = Append(wh_queue, whtask[w])
    /\ whpc' = [whpc EXCEPT ![w] = "loop"]
    /\ whtask' = [whtask EXCEPT ![w] = 0]
    /\ whsleep' = [whsleep EXCEPT ![w] = 0]
    /\ UNCHANGED <<wh_running, wh_workers, subscriptions, delivery_history,
                   deliveryObj, posts, wh_ret>>
    /\ UNCHANGED <<poolVars, queryVars, callerVars, tqVars>>

wh_worker(w) ==
    \/ wh_worker_loop(w)
    \/ wh_worker_get(w)
    \/ wh_worker_get_empty(w)
    \/ wh_worker_send_begin(w)
    \/ wh_worker_send_end(w)
    \/ wh_worker_requeue(w)

(***************************************************************************)
(* The queries of the WebhookManager                                       *)
(***************************************************************************)
\* the number of deliveries of the list ds whose status is st
CountStatus(ds, st) ==
    Cardinality({i \in DOMAIN ds : deliveryObj[ds[i]].status = st})

RECURSIVE SumAttempts(_)
SumAttempts(ds) ==
    IF ds = <<>> THEN 0
    ELSE deliveryObj[Head(ds)].attempts + SumAttempts(Tail(ds))

\* a quotient a / b of Python, kept as the pair of its operands
Quotient(a, b) == [num |-> a, den |-> b]

\* WebhookManager.get_delivery_stats
get_delivery_stats ==
    /\ wh_ret' =
          [op |-> "get_delivery_stats",
           value |->
             LET total == Len(delivery_history)
                 delivered == CountStatus(delivery_history, "delivered")
             IN [total |-> total,
                 delivered |-> delivered,
                 failed |-> CountStatus(delivery_history, "failed"),
                 pending |-> CountStatus(delivery_history, "pending"),
                 success_rate |-> IF total = 0 THEN Quotient(0, 1)
                                  ELSE Quotient(delivered * 100, total)]]
    /\ UNCHANGED <<wh_running, wh_workers, wh_queue, subscriptions,
                   delivery_history, deliveryObj, whpc, whtask, whsleep,
                   posts>>
    /\ UNCHANGED <<poolVars, queryVars, callerVars, tqVars>>

\* [d for d in deliveries if d.webhook_id == webhook_id]
RECURSIVE OfWebhook(_, _)
OfWebhook(ds, webhook_id) ==
    IF ds = <<>> THEN <<>>
    ELSE IF deliveryObj[Head(ds)].webhook_id = webhook_id
         THEN <<Head(ds)>> \o OfWebhook(Tail(ds), webhook_id)
         ELSE OfWebhook(Tail(ds), webhook_id)

\* WebhookManager.get_subscription_stats
get_subscription_stats(webhook_id) ==
    /\ wh_ret' =
          [op |-> "get_subscription_stats",
           value |->
             LET deliveries == OfWebhook(delivery_history, webhook_id)
             IN [total |-> Len(deliveries),
                 delivered |-> CountStatus(deliveries, "delivered"),
                 failed |-> CountStatus(deliveries, "failed"),
                 avg_attempts |->
                     IF deliveries = <<>> THEN Quotient(0, 1)
                     ELSE Quotient(SumAttempts(deliveries), Len(deliveries))]]
    /\ UNCHANGED <<wh_running, wh_workers, wh_queue, subscriptions,
                   delivery_history, deliveryObj, whpc, whtask, whsleep,
                   posts>>
    /\ UNCHANGED <<poolVars, queryVars, callerVars, tqVars>>

\* deliveries.sort(key=lambda d: d.created_at, reverse=True): the objects
\* were created in the order of their index, so a later index is a later
\* created_at
RECURSIVE sort_created_at_reverse(_)
sort_created_at_reverse(ds) ==
    IF ds = <<>> THEN <<>>
    ELSE LET m == CHOOSE i \in DOMAIN ds : \A j \in DOMAIN ds : ds[j] <= ds[i]
         IN <<ds[m]>> \o sort_created_at_reverse(
                SubSeq(ds, 1, m - 1) \o SubSeq(ds, m + 1, Len(ds)))

\* WebhookManager.get_recent_deliveries: without a webhook_id the name
\* `deliveries` is bound to self.delivery_history itself, and list.sort
\* sorts that list in place; with a webhook_id it is a filtered copy
get_recent_deliveries(webhook_id, limit) ==
    LET deliveries == IF webhook_id /= None
                      THEN OfWebhook(delivery_history, webhook_id)
                      ELSE delivery_history
        sorted == sort_created_at_reverse(deliveries)
    IN /\ delivery_history' = IF webhook_id /= None THEN delivery_history
                              ELSE sorted
       /\ wh_ret' = [op |-> "get_recent_deliveries",
                     value |-> SubSeq(sorted, 1, Min(limit, Len(sorted)))]
       /\ UNCHANGED <<wh_running, wh_workers, wh_queue, subscriptions,
                      deliveryObj, whpc, whtask, whsleep, posts>>
       /\ UNCHANGED <<poolVars, queryVars, callerVars, tqVars>>

(***************************************************************************)
(* TaskQueue (task_scheduler.py).  A task is [func, priority]: func tells   *)
(* whether the call raises; the task_id is the index of the task in tqObj. *)
(* The queue holds task indices, and 0 for the None that stop() puts.      *)
(***************************************************************************)
max_workers == NumWorkers

\* TaskQueue.start
tq_start ==
    /\ tq_stop_i = 0
    /\ Len(tq_workers) + max_workers <= NumWorkers * MaxStarts
    /\ IF tq_running
       THEN UNCHANGED <<tq_running, tq_workers, tqpc>>
       ELSE /\ tq_running' = TRUE
            /\ tq_workers' = tq_workers \o
                  [i \in 1..max_workers |-> Len(tq_workers) + i]
            /\ tqpc' = [w \in Threads |->
                          IF w > Len(tq_workers)
                             /\ w <= Len(tq_workers) + max_workers
                          THEN "loop" ELSE tqpc[w]]
    /\ UNCHANGED <<tq_queue, tq_priority_queue, tq_completed_tasks,
                   tq_failed_tasks, tqObj, tqtask, tq_stop_i>>
    /\ UNCHANGED <<poolVars, queryVars, whVars, callerVars>>

\* TaskQueue.stop: self.running = False
tq_stop_signal ==
    /\ tq_stop_i = 0
    /\ tq_running
    /\ tq_running' = FALSE
    /\ tq_stop_i' = max_workers
    /\ UNCHANGED <<tq_workers, tq_queue, tq_priority_queue,
                   tq_completed_tasks, tq_failed_tasks, tqObj, tqpc, tqtask>>
    /\ UNCHANGED <<poolVars, queryVars, whVars, callerVars>>

\* TaskQueue.stop: one self.queue.put(None) of the loop
tq_stop_put ==
    /\ tq_stop_i > 0
    /\ tq_queue' = Append(tq_queue, 0)
    /\ tq_stop_i' = tq_stop_i - 1
    /\ UNCHANGED <<tq_running, tq_workers, tq_priority_queue,
                   tq_completed_tasks, tq_failed_tasks, tqObj, tqpc, tqtask>>
    /\ UNCHANGED <<poolVars, queryVars, whVars, callerVars>>

tq_stop == tq_stop_signal \/ tq_stop_put

\* TaskQueue.enqueue
tq_enqueue(func) ==
    /\ tqObj' = Append(tqObj, [func |-> func, priority |-> 0])
    /\ tq_queue' = Append(tq_queue, Len(tqObj) + 1)
    /\ UNCHANGED <<tq_running, tq_workers, tq_priority_queue,
                   tq_completed_tasks, tq_failed_tasks, tqpc, tqtask,
                   tq_stop_i>>
    /\ UNCHANGED <<poolVars, queryVars, whVars, callerVars>>

\* heapq.heappush on tuples (priority, task_id, ...): the new entry moves
\* up while it is smaller than its parent
RECURSIVE tq_siftdown(_, _, _)
tq_siftdown(heap, pos, newitem) ==
    IF pos > 1
       /\ (\/ newitem[1] < heap[pos \div 2][1]
           \/ /\ newitem[1] = heap[pos \div 2][1]
              /\ newitem[2] < heap[pos \div 2][2])
    THEN tq_siftdown([heap EXCEPT ![pos] = heap[pos \div 2]], pos \div 2,
                     newitem)
    ELSE [heap EXCEPT ![pos] = newitem]

\* TaskQueue.enqueue_priority
tq_enqueue_priority(priority, func) ==
    /\ tqObj' = Append(tqObj, [func |-> func, priority |-> priority])
    /\ tq_priority_queue' =
          tq_siftdown(Append(tq_priority_queue, <<priority, Len(tqObj) + 1>>),
                      Len(tq_priority_queue) + 1,
                      <<priority, Len(tqObj) + 1>>)
    /\ UNCHANGED <<tq_running, tq_workers, tq_queue, tq_completed_tasks,
                   tq_failed_tasks, tqpc, tqtask, tq_stop_i>>
    /\ UNCHANGED <<poolVars, queryVars, whVars, callerVars>>

\* TaskQueue._worker: while self.running:
tq_worker_loop(w) ==
    /\ tqpc[w] = "loop"
    /\ tqpc' = [tqpc EXCEPT ![w] = IF tq_running THEN "get" ELSE "exit"]
    /\ UNCHANGED <<tq_running, tq_workers, tq_queue, tq_priority_queue,
                   tq_completed_tasks, tq_failed_tasks, tqObj, tqtask,
                   tq_stop_i>>
    /\ UNCHANGED <<poolVars, queryVars, whVars, callerVars>>

\* task = self.queue.get(), which blocks while the queue is empty;
\* if task is None: break
tq_worker_get(w) ==
    /\ tqpc[w] = "get"
    /\ tq_queue /= <<>>
    /\ tq_queue' = Tail(tq_queue)
    /\ IF Head(tq_queue) = 0
       THEN /\ tqpc' = [tqpc EXCEPT ![w] = "exit"]
            /\ UNCHANGED tqtask
       ELSE /\ tqpc' = [tqpc EXCEPT ![w] = "func"]
            /\ tqtask' = [tqtask EXCEPT ![w] = Head(tq_queue)]
    /\ UNCHANGED <<tq_running, tq_workers, tq_priority_queue,
                   tq_completed_tasks, tq_failed_tasks, tqObj, tq_stop_i>>
    /\ UNCHANGED <<poolVars, queryVars, whVars, callerVars>>

\* result = func(*args, **kwargs), then the append to completed_tasks, or
\* to failed_tasks when the call raised
tq_worker_func(w) ==
    /\ tqpc[w] = "func"
    /\ IF tqObj[tqtask[w]].func = "raises"
       THEN /\ tq_failed_tasks' = Append(tq_failed_tasks, tqtask[w])
            /\ UNCHANGED tq_completed_tasks
       ELSE /\ tq_completed_tasks' = Append(tq_completed_tasks, tqtask[w])
            /\ UNCHANGED tq_failed_tasks
    /\ tqpc' = [tqpc EXCEPT ![w] = "loop"]
    /\ tqtask' = [tqtask EXCEPT ![w] = 0]
    /\ UNCHANGED <<tq_running, tq_workers, tq_queue, tq_priority_queue,
                   tqObj, tq_stop_i>>
    /\ UNCHANGED <<poolVars, queryVars, whVars, callerVars>>

tq_worker(w) ==
    \/ tq_worker_loop(w)
    \/ tq_worker_get(w)
    \/ tq_worker_func(w)

(***************************************************************************)
(* Retry engine: a started pool, units of NORMAL priority that fail a      *)
(* chosen number of times.                                                 *)
(***************************************************************************)
SubmitRetry ==
    /\ task_counter < MaxTasksRetry
    /\ \E func \in FuncPlans : submit_task(func, NORMAL)

NextRetry == SubmitRetry \/ \E w \in Threads : _worker(w)

InitRetry == InitStartedPool /\ InitQuery /\ InitWebhook /\ InitCallers
               /\ InitTaskQueue

SpecRetry == InitRetry /\ [][NextRetry]_vars

(***************************************************************************)
(* A client thread calling get_task_status, get_task_result or             *)
(* wait_for_task while the workers run.                                    *)
(***************************************************************************)
QueryOps == {"get_task_status", "get_task_result", "wait_for_task"}

\* the outcome of a finished call: kind is
\*   "task"       the call returned the Task object `task`
\*   "value"      get_task_result returned task.result
\*   "raise"      get_task_result raised Exception("Task failed: ...")
\*   "not_ready"  get_task_result returned None for a task it found
\*   "not_found"  get_task_status found no record: the call returned None
\*   "KeyError"   self.tasks[task_id] raised inside get_task_status
\*   "timeout"    wait_for_task gave up
\* status, attempts and value are those of the Task at the return
Outcome(kind, t) ==
    [op |-> qop, id |-> qid, kind |-> kind, task |-> t,
     status |-> IF t = 0 THEN None ELSE taskObj[t].status,
     attempts |-> IF t = 0 THEN 0 ELSE taskObj[t].attempts,
     value |-> IF kind = "value" THEN taskObj[t].result
               ELSE IF kind = "raise" THEN taskObj[t].error ELSE None,
     known |-> qknown]

query_return(kind, t) ==
    /\ qres' = Outcome(kind, t)
    /\ qpc' = "idle"
    /\ qop' = None /\ qid' = 0 /\ qfound' = 0 /\ qknown' = FALSE
    /\ UNCHANGED qstats

\* the client enters one of the three calls
query_call(op, task_id) ==
    /\ qpc = "idle"
    /\ qpc' = "in_tasks"
    /\ qop' = op /\ qid' = task_id /\ qfound' = 0
    /\ qknown' = (\E t \in DOMAIN taskObj : taskObj[t].task_id = task_id)
    /\ qres' = NoResult
    /\ UNCHANGED qstats
    /\ UNCHANGED <<poolVars, whVars, callerVars, tqVars>>

\* what the caller of get_task_status does with a Task found (0: None)
query_after_status(t) ==
    IF qop = "get_task_status" \/ t = 0
    THEN query_return(IF t = 0 THEN "not_found" ELSE "task", t)
    ELSE /\ qfound' = t
         /\ qpc' = "decide"
         /\ UNCHANGED <<qop, qid, qknown, qres, qstats>>

\* get_task_status: if task_id in self.tasks:
get_task_status_in_tasks ==
    /\ qpc = "in_tasks"
    /\ qpc' = IF qid \in DOMAIN tasks THEN "read_tasks" ELSE "scan"
    /\ UNCHANGED <<qop, qid, qfound, qknown, qres, qstats>>
    /\ UNCHANGED <<poolVars, whVars, callerVars, tqVars>>

\* get_task_status: return self.tasks[task_id]
get_task_status_read_tasks ==
    /\ qpc = "read_tasks"
    /\ IF qid \in DOMAIN tasks
       THEN query_after_status(tasks[qid])
       ELSE query_return("KeyError", 0)
    /\ UNCHANGED <<poolVars, whVars, callerVars, tqVars>>

\* the Task get_task_status finds in the history, newest first (0: none)
ScanCompleted(history, task_id) ==
    LET hits == {i \in DOMAIN history : taskObj[history[i]].task_id = task_id}
    IN IF hits = {} THEN 0
       ELSE history[CHOOSE i \in hits : \A j \in hits : j <= i]

\* get_task_status: for task in reversed(self.completed_tasks): ...
get_task_status_scan ==
    /\ qpc = "scan"
    /\ query_after_status(ScanCompleted(completed_tasks, qid))
    /\ UNCHANGED <<poolVars, whVars, callerVars, tqVars>>

\* get_task_result: the branches on task.status
get_task_result_decide ==
    /\ qpc = "decide" /\ qop = "get_task_result"
    /\ query_return(IF taskObj[qfound].status = "completed" THEN "value"
                    ELSE IF taskObj[qfound].status = "failed" THEN "raise"
                    ELSE "not_ready", qfound)
    /\ UNCHANGED <<poolVars, whVars, callerVars, tqVars>>

wait_terminal(t) == t.status \in {"completed", "failed"}

\* wait_for_task: return the task, or sleep and look again
wait_for_task_decide ==
    /\ qpc = "decide" /\ qop = "wait_for_task"
    /\ IF wait_terminal(taskObj[qfound])
       THEN query_return("task", qfound)
       ELSE /\ qpc' = "in_tasks"
            /\ qfound' = 0
            /\ UNCHANGED <<qop, qid, qknown, qres, qstats>>
    /\ UNCHANGED <<poolVars, whVars, callerVars, tqVars>>

\* wait_for_task: time.time() - start >= timeout
wait_for_task_timeout ==
    /\ qpc = "in_tasks" /\ qop = "wait_for_task"
    /\ query_return("timeout", 0)
    /\ UNCHANGED <<poolVars, whVars, callerVars, tqVars>>

\* sum(1 for t in self.completed_tasks if t.status == status)
CountTasks(history, status) ==
    Cardinality({i \in DOMAIN history : taskObj[history[i]].status = status})

\* get_queue_stats: total_completed = len(self.completed_tasks)
get_queue_stats_len ==
    /\ qstats.pc = "idle"
    /\ qstats' = [qstats EXCEPT !.pc = "successful",
                                !.total_completed = Len(completed_tasks),
                                !.returned = FALSE]
    /\ UNCHANGED <<qpc, qop, qid, qfound, qknown, qres>>
    /\ UNCHANGED <<poolVars, whVars, callerVars, tqVars>>

\* get_queue_stats: successful = sum(... if t.status == 'completed')
get_queue_stats_successful ==
    /\ qstats.pc = "successful"
    /\ qstats' = [qstats EXCEPT
                    !.pc = "failed",
                    !.successful = CountTasks(completed_tasks, "completed")]
    /\ UNCHANGED <<qpc, qop, qid, qfound, qknown, qres>>
    /\ UNCHANGED <<poolVars, whVars, callerVars, tqVars>>

\* get_queue_stats: failed = sum(... if t.status == 'failed'), and the
\* dict returned
get_queue_stats_return ==
    /\ qstats.pc = "failed"
    /\ qstats' =
          [pc |-> "idle", total_completed |-> 0, successful |-> 0,
           returned |-> TRUE,
           value |-> [active |-> Cardinality(DOMAIN tasks),
                      queued |-> Len(queue),
                      completed |-> qstats.total_completed,
                      successful |-> qstats.successful,
                      failed |-> CountTasks(completed_tasks, "failed"),
                      workers |-> NumWorkers]]
    /\ UNCHANGED <<qpc, qop, qid, qfound, qknown, qres>>
    /\ UNCHANGED <<poolVars, whVars, callerVars, tqVars>>

get_queue_stats ==
    \/ get_queue_stats_len
    \/ get_queue_stats_successful
    \/ get_queue_stats_return

query ==
    \/ get_task_status_in_tasks
    \/ get_task_status_read_tasks
    \/ get_task_status_scan
    \/ get_task_result_decide
    \/ wait_for_task_decide
    \/ wait_for_task_timeout

SubmitQuery ==
    /\ task_counter < MaxTasksQuery
    /\ \E func \in FuncPlans : submit_task(func, NORMAL)

CallQuery ==
    \E op \in QueryOps, n \in 1..MaxTasksQuery :
        query_call(op, TaskId(n, clock))

NextQuery ==
    \/ SubmitQuery
    \/ CallQuery
    \/ query
    \/ \E w \in Threads : _worker(w)

InitQueryPool == InitStartedPool /\ InitQuery /\ InitWebhook /\ InitCallers
               /\ InitTaskQueue

SpecQuery == InitQueryPool /\ [][NextQuery]_vars

(***************************************************************************)
(* Dequeue order: a started pool, units of every priority.                 *)
(***************************************************************************)
Priorities == {LOW, NORMAL, HIGH, CRITICAL}

SubmitOrder ==
    /\ task_counter < MaxTasksOrder
    /\ \E func \in {0, 1}, priority \in Priorities :
           submit_task(func, priority)

NextOrder == SubmitOrder \/ \E w \in Threads : _worker(w)

InitOrder == InitStartedPool /\ InitQuery /\ InitWebhook /\ InitCallers
               /\ InitTaskQueue

SpecOrder == InitOrder /\ [][NextOrder]_vars

(***************************************************************************)
(* Starting the pools: both constructed, start() called up to MaxStarts    *)
(* times on each, no unit submitted, so the workers find their queue empty.*)
(***************************************************************************)
NextStart ==
    \/ start
    \/ wh_start
    \/ \E w \in Threads : worker_loop(w) \/ worker_get_empty(w)
    \/ \E w \in Threads : wh_worker_loop(w) \/ wh_worker_get_empty(w)

InitStart == InitPool /\ InitQuery /\ InitWebhook /\ InitCallers
               /\ InitTaskQueue

SpecStart == InitStart /\ [][NextStart]_vars

(***************************************************************************)
(* Both engines of one process: a started pool and a started dispatcher,   *)
(* callers that submit units, subscribe and trigger events.                *)
(***************************************************************************)
EngineWebhookIds == {"S1"}

SubmitEngine ==
    /\ Len(taskObj) + Len(deliveryObj) < MaxUnits
    /\ \E func \in FuncPlans : submit_task(func, NORMAL)

SubscribeEngine ==
    \E webhook_id \in EngineWebhookIds :
        subscribe(webhook_id, "u1", {"passport.created"}, None)

TriggerEngine ==
    /\ Len(taskObj) + Len(deliveryObj)
         + Len(Matching(subscriptions, "passport.created")) <= MaxUnits
    /\ trigger_event("passport.created", "data")

NextEngine ==
    \/ SubmitEngine
    \/ SubscribeEngine
    \/ TriggerEngine
    \/ \E w \in Threads : _worker(w)
    \/ \E w \in Threads : wh_worker(w)

InitEngine == InitStartedPool /\ InitQuery /\ InitStartedWebhook /\ InitCallers
               /\ InitTaskQueue

SpecEngine == InitEngine /\ [][NextEngine]_vars

(***************************************************************************)
(* Stopping the pool: a started pool, units that succeed (the first one    *)
(* may fail once before), one stop() call at any moment.  The threads are  *)
(* scheduled fairly and the units return.                                  *)
(***************************************************************************)
SubmitStop ==
    /\ task_counter < MaxTasksStop
    /\ \E func \in (IF task_counter = 0 THEN {0, 1} ELSE {0}) :
           submit_task(func, NORMAL)

NextStop ==
    \/ SubmitStop
    \/ stop
    \/ \E w \in Threads : _worker(w)

InitStop == InitStartedPool /\ InitQuery /\ InitWebhook /\ InitCallers
               /\ InitTaskQueue

SpecStop ==
    /\ InitStop /\ [][NextStop]_vars
    /\ \A w \in Threads : WF_vars(_worker(w))
    /\ WF_vars(stop_join \/ stop_return)

(***************************************************************************)
(* Concurrent submissions: NumSubmitters threads call submit_task on one   *)
(* started manager while the clock may advance.                            *)
(***************************************************************************)
SubmitConcurrent ==
    \E s \in Submitters :
        \/ SubmitCalls < MaxTasksSubmit /\ submit_load(s)
        \/ submit_store(s)
        \/ \E func \in {0, 1} : submit_task_id(s, func, NORMAL)
        \/ enqueue_tasks(s)
        \/ enqueue_put(s)

NextSubmit ==
    \/ SubmitConcurrent
    \/ tick
    \/ \E w \in Threads : _worker(w)

InitSubmit == InitStartedPool /\ InitQuery /\ InitWebhook /\ InitCallers
               /\ InitTaskQueue

SpecSubmit == InitSubmit /\ [][NextSubmit]_vars

(***************************************************************************)
(* The subscription registry: callers subscribe, unsubscribe and trigger   *)
(* events on the module-level manager; the dispatcher is not started, so   *)
(* the deliveries stay in its queue.                                       *)
(***************************************************************************)
HookIds == {"S1", "S2"}
UnknownId == "S0"
\* the endpoints subscribed: one without a secret, one with
Endpoints == {[url |-> "u1", secret |-> None], [url |-> "u2", secret |-> "k"]}
EventNames == {"passport.created", "passport.updated"}
EventLists ==
    {{"passport.created"}, {"passport.created", "passport.updated"},
     {"passport.*"}}

SubscribeHooks ==
    \E webhook_id \in HookIds, e \in Endpoints, events \in EventLists :
        subscribe(webhook_id, e.url, events, e.secret)

UnsubscribeHooks ==
    \E webhook_id \in HookIds \cup {UnknownId} : unsubscribe(webhook_id)

TriggerHooks ==
    \E event \in EventNames :
        /\ Len(deliveryObj) + Len(Matching(subscriptions, event))
              <= MaxTriggered
        /\ trigger_event(event, "data")

NextHooks == SubscribeHooks \/ UnsubscribeHooks \/ TriggerHooks

InitHooks == InitPool /\ InitQuery /\ InitWebhook /\ InitCallers
               /\ InitTaskQueue

SpecHooks == InitHooks /\ [][NextHooks]_vars

(***************************************************************************)
(* Subscribing again: every id is subscribed first to the endpoint without *)
(* a secret, and subscribe is called again only on an id that has been     *)
(* unsubscribed, with the other endpoint.                                  *)
(***************************************************************************)
FirstEndpoint == [url |-> "u1", secret |-> None]
SecondEndpoint == [url |-> "u2", secret |-> "k"]

SubscribeFirst ==
    \E webhook_id \in HookIds, events \in EventLists :
        /\ SubIndex(subscriptions, webhook_id) = 0
        /\ subscribe(webhook_id, FirstEndpoint.url, events,
                     FirstEndpoint.secret)

SubscribeAgain ==
    \E webhook_id \in HookIds, events \in EventLists :
        /\ SubIndex(subscriptions, webhook_id) /= 0
        /\ ~subscriptions[SubIndex(subscriptions, webhook_id)].active
        /\ subscribe(webhook_id, SecondEndpoint.url, events,
                     SecondEndpoint.secret)

NextResubscribe ==
    \/ SubscribeFirst
    \/ SubscribeAgain
    \/ UnsubscribeHooks
    \/ TriggerHooks

SpecResubscribe == InitHooks /\ [][NextResubscribe]_vars

(***************************************************************************)
(* The dispatcher: a started WebhookQueue, one subscription, events        *)
(* triggered with either payload, stop() at any moment.                    *)
(***************************************************************************)
SubscribeDeliver == subscribe("S1", "u1", {"passport.created"}, None)

TriggerDeliver ==
    /\ Len(deliveryObj) + Len(Matching(subscriptions, "passport.created"))
          <= MaxDeliveries
    /\ \E payload \in Payloads : trigger_event("passport.created", payload)

NextDeliver ==
    \/ SubscribeDeliver
    \/ TriggerDeliver
    \/ wh_stop
    \/ \E w \in Threads : wh_worker(w)

InitDeliver == InitPool /\ InitQuery /\ InitStartedWebhook /\ InitCallers
               /\ InitTaskQueue

SpecDeliver == InitDeliver /\ [][NextDeliver]_vars

(***************************************************************************)
(* The delivery history: two subscribers of one event, events triggered    *)
(* and the history queried, the dispatcher not started.                    *)
(***************************************************************************)
SubscribeHistory ==
    \E webhook_id \in HookIds :
        subscribe(webhook_id, "u1", {"passport.created"}, None)

TriggerHistory ==
    /\ Len(deliveryObj) + Len(Matching(subscriptions, "passport.created"))
          <= MaxTriggered
    /\ trigger_event("passport.created", "data")

\* limit: one delivery, or the default, which is above the history's size
QueryHistory ==
    \/ get_delivery_stats
    \/ \E webhook_id \in HookIds : get_subscription_stats(webhook_id)
    \/ \E webhook_id \in HookIds \cup {None}, limit \in {1, 100} :
           get_recent_deliveries(webhook_id, limit)

NextHistory == SubscribeHistory \/ TriggerHistory \/ QueryHistory

SpecHistory == InitHooks /\ [][NextHistory]_vars

(***************************************************************************)
(* The TaskQueue of task_scheduler.py: callers start and stop it and hand  *)
(* it tasks with enqueue and enqueue_priority; the threads are scheduled   *)
(* fairly, the tasks return or raise, and a stop() that was begun is       *)
(* carried through.                                                        *)
(***************************************************************************)
MaxTasksTQ == 2
TQFuncs == {"returns", "raises"}
TQPriorities == {1, 2}

EnqueueTQ ==
    /\ Len(tqObj) < MaxTasksTQ
    /\ \/ \E func \in TQFuncs : tq_enqueue(func)
       \/ \E priority \in TQPriorities, func \in TQFuncs :
             tq_enqueue_priority(priority, func)

NextTQ ==
    \/ tq_start
    \/ tq_stop
    \/ EnqueueTQ
    \/ \E w \in Threads : tq_worker(w)

InitTQ == InitPool /\ InitQuery /\ InitWebhook /\ InitCallers
             /\ InitTaskQueue

SpecTQ ==
    /\ InitTQ /\ [][NextTQ]_vars
    /\ \A w \in Threads : WF_vars(tq_worker(w))
    /\ WF_vars(tq_stop_put)

(***************************************************************************)
(* Pool statistics: the retry engine, and a thread that calls              *)
(* get_queue_stats while the workers run.                                  *)
(***************************************************************************)
NextQueueStats ==
    \/ SubmitRetry
    \/ get_queue_stats
    \/ \E w \in Threads : _worker(w)

SpecQueueStats == InitRetry /\ [][NextQueueStats]_vars

(***************************************************************************)
(* Delivery statistics: a started dispatcher, one subscription, one        *)
(* delivery that meets every outcome of requests.post, and the two         *)
(* statistics queries of the manager.                                      *)
(***************************************************************************)
MaxStatDeliveries == 1

TriggerStats ==
    /\ Len(deliveryObj) + Len(Matching(subscriptions, "passport.created"))
          <= MaxStatDeliveries
    /\ trigger_event("passport.created", "data")

QueryStats ==
    \/ get_delivery_stats
    \/ get_subscription_stats("S1")

NextStats ==
    \/ SubscribeDeliver
    \/ TriggerStats
    \/ QueryStats
    \/ \E w \in Threads : wh_worker(w)

SpecStats == InitDeliver /\ [][NextStats]_vars

(***************************************************************************)
(* One worker: init_background_workers(1) and a WebhookQueue(1), both      *)
(* started, with units that return and units that raise.                   *)
(***************************************************************************)
InitSinglePool ==
    /\ running = TRUE
    /\ workers = <<1>>
    /\ queue = <<>>
    /\ tasks = <<>>
    /\ completed_tasks = <<>>
    /\ task_counter = 0
    /\ taskObj = <<>>
    /\ wpc = [w \in Threads |-> IF w = 1 THEN "loop" ELSE "unborn"]
    /\ wtask = [w \in Threads |-> 0]
    /\ wslice = [w \in Threads |-> <<>>]
    /\ wsleep = [w \in Threads |-> 0]
    /\ dropped = {}
    /\ wh_running = TRUE
    /\ wh_workers = <<1>>
    /\ wh_queue = <<>>
    /\ subscriptions = <<>>
    /\ delivery_history = <<>>
    /\ deliveryObj = <<>>
    /\ whpc = [w \in Threads |-> IF w = 1 THEN "loop" ELSE "unborn"]
    /\ whtask = [w \in Threads |-> 0]
    /\ whsleep = [w \in Threads |-> 0]
    /\ posts = <<>>
    /\ wh_ret = [op |-> "none", value |-> <<>>]

InitSingle == InitSinglePool /\ InitQuery /\ InitCallers /\ InitTaskQueue

SpecSingle == InitSingle /\ [][NextEngine]_vars

(***************************************************************************)
(* Signed requests: a started dispatcher, one subscription whose endpoint  *)
(* and secret can be replaced, events triggered with two serialisable      *)
(* payloads while the wall clock advances.                                 *)
(***************************************************************************)
SignedPayloads == {"data", "more"}

SubscribeSign ==
    \E e \in Endpoints :
        subscribe("S1", e.url, {"passport.created"}, e.secret)

TriggerSign ==
    /\ Len(deliveryObj) + Len(Matching(subscriptions, "passport.created"))
          <= MaxDeliveries
    /\ \E payload \in SignedPayloads :
           trigger_event("passport.created", payload)

\* the endpoint accepts the request or answers with a server error
SignResponses == [kind : {"Response"}, status_code : {200, 500}]

WorkerSign(w) ==
    \/ wh_worker_loop(w)
    \/ wh_worker_get(w)
    \/ wh_worker_get_empty(w)
    \/ wh_worker_send_begin(w)
    \/ \E resp \in SignResponses : wh_worker_post(w, resp)
    \/ wh_worker_requeue(w)

NextSign ==
    \/ SubscribeSign
    \/ TriggerSign
    \/ tick
    \/ \E w \in Threads : WorkerSign(w)

SpecSign == InitDeliver /\ [][NextSign]_vars

(***************************************************************************)
(* Where a unit is.                                                        *)
(***************************************************************************)
Submitted == DOMAIN taskObj

\* the worker has dequeued t and has not yet recorded it or put it back
HeldBy(w, t) ==
    /\ wtask[w] = t
    /\ wpc[w] \in {"execute", "func", "sleep", "complete_del",
                   "complete_append"}

\* t is neither queued nor in the hands of a worker: its processing is over
Ended(t) ==
    /\ t \in Submitted
    /\ t \notin Queued
    /\ \A w \in Threads : ~HeldBy(w, t)

Count(s, x) == Cardinality({i \in DOMAIN s : s[i] = x})

AlwaysFails(t) == taskObj[t].func >= taskObj[t].max_attempts

\* worker w takes a unit from the queue in this step
Dequeues(w) == wpc[w] = "get" /\ wpc'[w] = "execute"

(***************************************************************************)
(* C1: whenever a worker dequeues, the unit it takes has the highest       *)
(* priority among the queued units (CRITICAL > HIGH > NORMAL > LOW): no    *)
(* unit of a higher priority is left behind in the queue.                  *)
(***************************************************************************)
C1_HighestPriorityFirst ==
    [][\A w \in Threads :
         Dequeues(w) =>
            \A t \in Queued' :
               taskObj[t].priority <= taskObj[wtask'[w]].priority]_vars

(***************************************************************************)
(* C2: units of equal priority are dequeued in submission order: a unit    *)
(* taken for its first execution leaves behind no unit of the same         *)
(* priority that was submitted earlier and has not been started.           *)
(***************************************************************************)
C2_FifoWithinPriority ==
    [][\A w \in Threads :
         (Dequeues(w) /\ taskObj[wtask'[w]].attempts = 0) =>
            \A t \in Queued' :
               (/\ taskObj[t].priority = taskObj[wtask'[w]].priority
                /\ taskObj[t].attempts = 0) => t > wtask'[w]]_vars

\* worker w appends unit t to the history in this step
Records(w, t) ==
    wpc[w] = "complete_append" /\ wpc'[w] = "complete_trim" /\ wtask[w] = t

\* how a unit that always fails stands in a state
RetryBoundOf(t) ==
    /\ taskObj[t].attempts <= taskObj[t].max_attempts
    /\ Ended(t) =>
          /\ taskObj[t].status = "failed"
          /\ taskObj[t].attempts = taskObj[t].max_attempts
          /\ taskObj[t].error /= None
          /\ taskObj[t].task_id \notin DOMAIN tasks
    /\ Count(completed_tasks, t) <= 1

(***************************************************************************)
(* C3: in a running pool, a unit whose work fails on every attempt is      *)
(* never executed more than max_attempts times; when its processing is     *)
(* over it has status failed, attempts equal to max_attempts, its error    *)
(* set and its id gone from the active map; the step that ends it puts     *)
(* exactly one record of it in the history, which never holds two.         *)
(***************************************************************************)
C3_RetryBound ==
    [][\A t \in DOMAIN taskObj' :
          AlwaysFails(t)' =>
             /\ RetryBoundOf(t)'
             /\ \A w \in Threads :
                   Records(w, t) =>
                      /\ Count(completed_tasks', t) = 1
                      /\ taskObj'[t].status = "failed"
                      /\ taskObj'[t].attempts = taskObj'[t].max_attempts]_vars

C3_Witness ==
    \E t \in Submitted :
        /\ AlwaysFails(t) /\ Ended(t)
        /\ taskObj[t].status = "failed"
        /\ taskObj[t].attempts = TaskMaxAttempts
        /\ Count(completed_tasks, t) = 1

(***************************************************************************)
(* C5: a unit that fails on its first k attempts, k < max_attempts, and    *)
(* succeeds on attempt k+1 ends completed with attempts = k+1 and the      *)
(* result of the successful call stored.                                   *)
(***************************************************************************)
C5_SucceedsAfterFailures ==
    \A t \in Submitted :
        (Ended(t) /\ ~AlwaysFails(t)) =>
            /\ taskObj[t].status = "completed"
            /\ taskObj[t].attempts = taskObj[t].func + 1
            /\ taskObj[t].result = "value"

C5_Witness ==
    \E t \in Submitted :
        /\ Ended(t)
        /\ taskObj[t].func = 2
        /\ taskObj[t].status = "completed"
        /\ taskObj[t].attempts = 3

(***************************************************************************)
(* C6: status completed implies result set and error unset; status failed  *)
(* implies error set.                                                      *)
(***************************************************************************)
C6_ResultErrorByStatus ==
    \A t \in Submitted :
        /\ taskObj[t].status = "completed" =>
              (taskObj[t].result /= None /\ taskObj[t].error = None)
        /\ taskObj[t].status = "failed" => taskObj[t].error /= None

(***************************************************************************)
(* C7: wait_for_task returns a record only when it is terminal: from the   *)
(* return on, the unit is neither queued nor in the hands of a worker for  *)
(* another attempt, and its status and attempts are those it had at the    *)
(* return.                                                                 *)
(***************************************************************************)
C7_WaitReturnsTerminal ==
    (qres.op = "wait_for_task" /\ qres.kind = "task") =>
        /\ qres.task \notin Queued
        /\ \A w \in Threads :
              ~(wtask[w] = qres.task /\ wpc[w] \in {"execute", "func", "sleep"})
        /\ taskObj[qres.task].status = qres.status
        /\ taskObj[qres.task].attempts = qres.attempts

(***************************************************************************)
(* C8: get_task_result, for a record it found, returns the stored result   *)
(* when the status is completed, raises with the stored error when the     *)
(* unit has failed terminally (attempts = max_attempts), and returns the   *)
(* not-ready value without raising otherwise.                              *)
(***************************************************************************)
C8_ResultByStatus ==
    (qres.op = "get_task_result" /\ qres.task /= 0) =>
        LET terminalFailure ==
                qres.status = "failed"
                    /\ qres.attempts = taskObj[qres.task].max_attempts
        IN /\ qres.status = "completed" =>
                 (qres.kind = "value" /\ qres.value = "value")
           /\ terminalFailure => (qres.kind = "raise" /\ qres.value = "error")
           /\ (qres.status /= "completed" /\ ~terminalFailure) =>
                 qres.kind = "not_ready"

(***************************************************************************)
(* C9: a status query reports not-found only for an id that was never      *)
(* submitted or whose record the history ring has dropped.                 *)
(***************************************************************************)
C9_FoundUnlessEvicted ==
    (qres.kind = "not_found" /\ qres.known) =>
        \E t \in dropped : taskObj[t].task_id = qres.id

(***************************************************************************)
(* C4: in every reachable state every task and every webhook delivery has  *)
(* attempts <= max_attempts (3 for tasks, 5 for deliveries).               *)
(***************************************************************************)
C4_AttemptsWithinBudget ==
    /\ \A t \in DOMAIN taskObj :
          /\ taskObj[t].max_attempts = 3
          /\ taskObj[t].attempts <= taskObj[t].max_attempts
    /\ \A d \in DOMAIN deliveryObj :
          /\ deliveryObj[d].max_attempts = 5
          /\ deliveryObj[d].attempts <= deliveryObj[d].max_attempts

C4_Witness ==
    /\ \E t \in DOMAIN taskObj :
          taskObj[t].attempts = 3 /\ taskObj[t].status = "failed"
    /\ \E d \in DOMAIN deliveryObj :
          deliveryObj[d].attempts = 5 /\ deliveryObj[d].status /= "delivered"

(***************************************************************************)
(* C10: start() is idempotent for WorkerQueue and WebhookQueue: after any  *)
(* number of start() calls a pool has exactly num_workers worker threads.  *)
(***************************************************************************)
LiveThreads(pc) == {w \in Threads : pc[w] \notin {"unborn", "exit"}}

C10_StartIdempotent ==
    /\ running =>
          (Len(workers) = NumWorkers
              /\ Cardinality(LiveThreads(wpc)) = NumWorkers)
    /\ wh_running =>
          (Len(wh_workers) = NumWorkers
              /\ Cardinality(LiveThreads(whpc)) = NumWorkers)

(***************************************************************************)
(* C11: if stop() is called while every worker is executing a unit and     *)
(* further units are queued, then from some moment on and for ever: every  *)
(* worker has exited, stop() has returned, each unit that was in flight    *)
(* has finished the execution it was in and was not executed again, and    *)
(* none of the units that were queued has been executed.                   *)
(***************************************************************************)
StopDone ==
    /\ \A w \in Range(workers) : wpc[w] = "exit"
    /\ stop_pc = "returned"
    /\ \A t \in stop_snap.inflight :
          /\ taskObj[t].status \in {"completed", "failed"}
          /\ taskObj[t].attempts = stop_snap.objs[t].attempts
    /\ \A t \in stop_snap.queued : taskObj[t] = stop_snap.objs[t]

C11_StopAbandonsQueued == stop_snap.pre ~> []StopDone

C11_Witness ==
    /\ stop_snap.pre
    /\ Cardinality(stop_snap.inflight) = NumWorkers
    /\ stop_snap.queued /= {}
    /\ StopDone
    /\ \A t \in stop_snap.queued : taskObj[t].attempts = 0

(***************************************************************************)
(* C14: identifiers returned by submit_task are unique: no two units       *)
(* created by one manager, by whatever threads, have the same id.          *)
(***************************************************************************)
C14_UniqueIds ==
    \A t1, t2 \in DOMAIN taskObj :
        t1 /= t2 => taskObj[t1].task_id /= taskObj[t2].task_id

(***************************************************************************)
(* C12: a failure raised by a unit never terminates a worker: in a running *)
(* pool the live workers are the num_workers threads that were started,    *)
(* none of them has left its loop, every one of them can take its next     *)
(* step, and a worker whose unit has just raised is on its way to the      *)
(* backoff or to the history, from where it returns to the dequeue.        *)
(***************************************************************************)
\* the unit in the hands of worker w has raised in the execution just over
JustRaised(w) ==
    /\ wpc[w] \in {"sleep", "complete_del"}
    /\ taskObj[wtask[w]].status = "failed"

C12_FailureContained ==
    /\ running => Cardinality(LiveThreads(wpc)) = NumWorkers
    /\ \A w \in Range(workers) :
          /\ wpc[w] /= "exit"
          /\ ENABLED _worker(w)
    /\ \A w \in Threads :
          JustRaised(w) => ENABLED (worker_requeue(w) \/ complete_del(w))

\* every unit submitted has raised on each of its max_attempts executions;
\* these are more executions than there are workers, so some worker has
\* dequeued again after its unit raised; all the workers are still live
C12_Witness ==
    /\ Cardinality(Submitted) * TaskMaxAttempts > NumWorkers
    /\ \A t \in Submitted :
          /\ AlwaysFails(t) /\ Ended(t)
          /\ taskObj[t].attempts = TaskMaxAttempts
    /\ Cardinality(LiveThreads(wpc)) = NumWorkers
    /\ \E w \in Range(workers) : wpc[w] = "get"

(***************************************************************************)
(* C13: when a worker leaves _complete_task the history holds at most      *)
(* max_completed records, and eviction is oldest first: whenever the       *)
(* history changes, either one record was appended to it or what is left   *)
(* is its newest part (a suffix of what it held).                          *)
(***************************************************************************)
IsSuffix(s, t) ==
    Len(s) <= Len(t) /\ (s = <<>> \/ s = Last(t, Len(s)))

C13_BoundedOldestFirst ==
    [][/\ \A w \in Threads :
            (wpc[w] \in {"complete_trim", "complete_assign"}
                /\ wpc'[w] = "loop") =>
                Len(completed_tasks') <= max_completed
       /\ completed_tasks' /= completed_tasks =>
             \/ \E t \in DOMAIN taskObj :
                    completed_tasks' = Append(completed_tasks, t)
             \/ IsSuffix(completed_tasks', completed_tasks)]_vars

(***************************************************************************)
(* C15: low-priority work cannot starve critical work: a worker never      *)
(* takes a LOW unit from the queue while a CRITICAL unit that was          *)
(* submitted before that LOW unit is still waiting in the queue.           *)
(***************************************************************************)
C15_CriticalNotStarved ==
    [][\A w \in Threads :
         (Dequeues(w) /\ taskObj[wtask'[w]].priority = LOW) =>
            \A t \in Queued' :
               taskObj[t].priority = CRITICAL => t > wtask'[w]]_vars

(***************************************************************************)
(* What one trigger_event(E, body) step does.                              *)
(***************************************************************************)
\* the subscriptions that are active and list exactly E among their events
Subscribed(E) ==
    {i \in DOMAIN subscriptions :
        subscriptions[i].active /\ E \in subscriptions[i].events}

\* the deliveries created in this step
Created == (DOMAIN deliveryObj') \ (DOMAIN deliveryObj)

\* one new delivery per subscription of Subscribed(E), none for any other,
\* each with that subscription's id, url and secret and the given body;
\* the queue receives exactly these deliveries
FanOut(E, body) ==
    /\ Cardinality(Created) = Cardinality(Subscribed(E))
    /\ \A d \in DOMAIN deliveryObj : deliveryObj'[d] = deliveryObj[d]
    /\ \A i \in Subscribed(E) :
          \E d \in Created :
             /\ deliveryObj'[d].webhook_id = subscriptions[i].webhook_id
             /\ deliveryObj'[d].url = subscriptions[i].url
             /\ deliveryObj'[d].secret = subscriptions[i].secret
             /\ deliveryObj'[d].event = E
             /\ deliveryObj'[d].payload = body
             /\ deliveryObj'[d].attempts = 0
             /\ deliveryObj'[d].status = "pending"
    /\ \A d \in Created :
          \E i \in Subscribed(E) :
             deliveryObj'[d].webhook_id = subscriptions[i].webhook_id
    /\ Len(wh_queue') = Len(wh_queue) + Cardinality(Subscribed(E))
    /\ SubSeq(wh_queue', 1, Len(wh_queue)) = wh_queue
    /\ {wh_queue'[k] : k \in (DOMAIN wh_queue') \ (DOMAIN wh_queue)} = Created

C17_SubscribeUpsert ==
    [][\A webhook_id \in HookIds, e \in Endpoints, events \in EventLists :
         (subscribe(webhook_id, e.url, events, e.secret)
             /\ SubIndex(subscriptions, webhook_id) /= 0) =>
            /\ Len(subscriptions') = Len(subscriptions)
            /\ Cardinality({i \in DOMAIN subscriptions' :
                   subscriptions'[i].webhook_id = webhook_id}) = 1
            /\ \A i \in DOMAIN subscriptions' :
                  IF subscriptions'[i].webhook_id = webhook_id
                  THEN /\ subscriptions'[i].url = e.url
                       /\ subscriptions'[i].events = events
                       /\ subscriptions'[i].secret = e.secret
                  ELSE subscriptions'[i] = subscriptions[i]]_vars

\* S1 was subscribed with one url, an event was delivered to it, and it was
\* subscribed again with the other url: the registry holds S1 once
C17_Witness ==
    \E i \in DOMAIN subscriptions, d \in DOMAIN deliveryObj :
        /\ deliveryObj[d].webhook_id = subscriptions[i].webhook_id
        /\ deliveryObj[d].url /= subscriptions[i].url
        /\ Cardinality({j \in DOMAIN subscriptions :
               subscriptions[j].webhook_id = subscriptions[i].webhook_id}) = 1

(***************************************************************************)
(* C18: unsubscribe(id) of a registered id reports success and only marks  *)
(* that subscription inactive: it stays in the registry with its other     *)
(* fields, every other subscription, the delivery queue, the deliveries    *)
(* and the delivery history are unchanged; unsubscribe of an unknown id    *)
(* reports failure and changes nothing; a trigger creates no delivery for  *)
(* a subscription that is inactive.                                        *)
(***************************************************************************)
C18_UnsubscribeMarksInactive ==
    [][/\ \A webhook_id \in HookIds \cup {UnknownId} :
            unsubscribe(webhook_id) =>
               LET k == SubIndex(subscriptions, webhook_id)
               IN /\ unsubscribe_result(webhook_id) = (k /= 0)
                  /\ Len(subscriptions') = Len(subscriptions)
                  /\ \A i \in DOMAIN subscriptions :
                        IF i = k
                        THEN subscriptions'[i] =
                                [subscriptions[i] EXCEPT !.active = FALSE]
                        ELSE subscriptions'[i] = subscriptions[i]
                  /\ k = 0 => subscriptions' = subscriptions
                  /\ UNCHANGED <<wh_queue, delivery_history, deliveryObj>>
       /\ \A d \in Created :
             \A i \in DOMAIN subscriptions :
                subscriptions[i].webhook_id = deliveryObj'[d].webhook_id =>
                   subscriptions[i].active]_vars

\* S1 and S2 list the same event, S1 got a delivery and was unsubscribed:
\* it is still registered, its delivery is still queued, and a delivery made
\* since went to S2 and not to S1
C18_Witness ==
    \E i, j \in DOMAIN subscriptions :
        /\ ~subscriptions[i].active /\ subscriptions[j].active
        /\ subscriptions[i].events = {"passport.created"}
        /\ subscriptions[j].events = {"passport.created"}
        /\ \E q \in DOMAIN wh_queue :
              deliveryObj[wh_queue[q]].webhook_id = subscriptions[i].webhook_id
        /\ deliveryObj[Len(deliveryObj)].webhook_id
              = subscriptions[j].webhook_id
        /\ Cardinality({d \in DOMAIN deliveryObj :
               deliveryObj[d].webhook_id = subscriptions[j].webhook_id}) = 1

(***************************************************************************)
(* C19: a delivery attempt succeeds iff the response status is in          *)
(* 200..299; after any other outcome of the request (another status, a     *)
(* timeout, a connection error, another exception) the worker goes to the  *)
(* backoff, at whose end the delivery is put back on the queue, iff        *)
(* attempts < max_attempts (5); a delivery that was delivered is never     *)
(* sent or queued again.                                                   *)
(***************************************************************************)
Is2xx(resp) ==
    resp.kind = "Response" /\ resp.status_code \in 200..299

\* the delivery is waiting in the queue or in the hands of a worker
DeliveryPending(d) ==
    \/ d \in Range(wh_queue)
    \/ \E w \in Threads : whtask[w] = d /\ whpc[w] \in {"send", "post", "sleep"}

C19_SuccessIff2xx ==
    [][/\ \A w \in Threads, resp \in Responses :
            wh_worker_post(w, resp) =>
               LET d == whtask[w]
               IN /\ (deliveryObj'[d].status = "delivered") <=> Is2xx(resp)
                  /\ deliveryObj'[d].attempts = deliveryObj[d].attempts
                  /\ whpc'[w] = IF ~Is2xx(resp) /\ deliveryObj'[d].attempts < 5
                                THEN "sleep" ELSE "loop"
                  /\ wh_queue' = wh_queue
       /\ \A w \in Threads :
            (whpc[w] = "sleep" /\ whpc'[w] /= "sleep") =>
                wh_queue' = Append(wh_queue, whtask[w])
       /\ \A d \in DOMAIN deliveryObj :
            deliveryObj[d].status = "delivered" =>
                /\ deliveryObj'[d] = deliveryObj[d]
                /\ ~DeliveryPending(d)']_vars

\* one delivery was delivered on a retry, another used its 5 attempts
C19_Witness ==
    \E d1, d2 \in DOMAIN deliveryObj :
        /\ deliveryObj[d1].status = "delivered"
        /\ deliveryObj[d1].attempts > 1
        /\ ~DeliveryPending(d1)
        /\ deliveryObj[d2].status \in {"failed", "timeout", "connection_error",
                                       "error"}
        /\ deliveryObj[d2].attempts = 5
        /\ ~DeliveryPending(d2)

(***************************************************************************)
(* C20: the engine never drops a triggered event: a delivery that is no    *)
(* longer queued nor in the hands of a worker has been delivered or has    *)
(* been attempted max_attempts times.                                      *)
(***************************************************************************)
C20_NeverDropped ==
    \A d \in DOMAIN deliveryObj :
        ~DeliveryPending(d) =>
            \/ deliveryObj[d].status = "delivered"
            \/ deliveryObj[d].attempts = deliveryObj[d].max_attempts

(***************************************************************************)
(* C21: a webhook worker that retries a delivery after its k-th attempt    *)
(* failed sleeps min(2^k, 60) seconds before it re-enqueues the delivery   *)
(* (2 s after attempt 1, 4 s after attempt 2), and never more than 60.     *)
(***************************************************************************)
C21_DeliveryBackoff ==
    \A w \in Threads :
        whpc[w] = "sleep" =>
            /\ whsleep[w] = Min(2 ^ deliveryObj[whtask[w]].attempts,
                                MaxRetryDelay)
            /\ whsleep[w] <= MaxRetryDelay

(***************************************************************************)
(* C22: a pool worker that retries a unit after its k-th attempt failed    *)
(* (1 <= k < max_attempts) sleeps exactly 2^k seconds before it            *)
(* re-enqueues the unit: 2 s after attempt 1, 4 s after attempt 2, and no  *)
(* cap is applied.                                                         *)
(***************************************************************************)
C22_PoolBackoff ==
    \A w \in Threads :
        wpc[w] = "sleep" =>
            /\ taskObj[wtask[w]].attempts >= 1
            /\ taskObj[wtask[w]].attempts < taskObj[wtask[w]].max_attempts
            /\ wsleep[w] = 2 ^ taskObj[wtask[w]].attempts
            /\ (taskObj[wtask[w]].attempts = 1 => wsleep[w] = 2)
            /\ (taskObj[wtask[w]].attempts = 2 => wsleep[w] = 4)

C22_Witness ==
    \E w1, w2 \in Threads :
        /\ wpc[w1] = "sleep" /\ taskObj[wtask[w1]].attempts = 1
        /\ wpc[w2] = "sleep" /\ taskObj[wtask[w2]].attempts = 2
        /\ wsleep[w2] = 4

(***************************************************************************)
(* C23: the n-th POST issued for a delivery carries X-Webhook-Attempt = n: *)
(* over the sends of one delivery the header reads 1, 2, 3, ... without a  *)
(* gap or a repeat, and it never exceeds max_attempts.                     *)
(***************************************************************************)
C23_AttemptHeader ==
    \A d \in DOMAIN posts :
        /\ Len(posts[d]) <= deliveryObj[d].max_attempts
        /\ \A n \in 1..Len(posts[d]) :
               posts[d][n].headers["X-Webhook-Attempt"] = str(n)

C23_Witness ==
    \E d \in DOMAIN posts :
        /\ Len(posts[d]) = DeliveryMaxAttempts
        /\ posts[d][DeliveryMaxAttempts].headers["X-Webhook-Attempt"] = <<"5">>
        /\ posts[d][1].headers["X-Webhook-Attempt"] = <<"1">>

(***************************************************************************)
(* C24: every POST of a delivery that has a secret carries                 *)
(* X-Webhook-Signature = "sha256=" + hex(HMAC-SHA256(secret, body)) over   *)
(* exactly the body of that same request; requests of one secret whose     *)
(* envelopes differ in the payload carry different signatures; a delivery  *)
(* without a secret carries no signature header.                           *)
(***************************************************************************)
Signature(d, n) == posts[d][n].headers["X-Webhook-Signature"]

C24_SignatureOverBody ==
    /\ \A d \in DOMAIN posts : \A n \in 1..Len(posts[d]) :
           IF deliveryObj[d].secret /= None
           THEN /\ "X-Webhook-Signature" \in DOMAIN posts[d][n].headers
                /\ Signature(d, n) =
                       <<"sha256=", hmac_sha256_hex(deliveryObj[d].secret,
                                                    posts[d][n].data)>>
           ELSE "X-Webhook-Signature" \notin DOMAIN posts[d][n].headers
    /\ \A d1, d2 \in DOMAIN posts :
           \A n1 \in 1..Len(posts[d1]), n2 \in 1..Len(posts[d2]) :
               /\ deliveryObj[d1].secret /= None
               /\ deliveryObj[d2].secret = deliveryObj[d1].secret
               /\ deliveryObj[d1].payload /= deliveryObj[d2].payload
               => Signature(d1, n1) /= Signature(d2, n2)

C24_Witness ==
    \E d1, d2 \in DOMAIN posts :
        /\ deliveryObj[d1].secret = "k" /\ deliveryObj[d2].secret = "k"
        /\ deliveryObj[d1].payload /= deliveryObj[d2].payload
        /\ Len(posts[d1]) >= 2 /\ Len(posts[d2]) >= 1
        /\ posts[d1][1].data /= posts[d1][2].data
        /\ "X-Webhook-Signature" \in DOMAIN posts[d2][1].headers

(***************************************************************************)
(* C25: every delivery in the delivery queue or in the delivery history    *)
(* references exactly one subscription, and at the moment trigger_event    *)
(* created the delivery that subscription was active and listed the        *)
(* delivery's event, whatever subscribe, unsubscribe and trigger_event     *)
(* calls were made.                                                        *)
(***************************************************************************)
\* the subscriptions of the registry subs that delivery object d names
SubscriptionsOf(subs, d) ==
    {i \in DOMAIN subs : subs[i].webhook_id = d.webhook_id}

C25_DeliveryReferencesSubscription ==
    [][/\ \A d \in Created :
             /\ Cardinality(SubscriptionsOf(subscriptions, deliveryObj'[d])) = 1
             /\ \A i \in SubscriptionsOf(subscriptions, deliveryObj'[d]) :
                   /\ subscriptions[i].active
                   /\ deliveryObj'[d].event \in subscriptions[i].events
       /\ \A d \in Range(wh_queue') \cup Range(delivery_history') :
             Cardinality(SubscriptionsOf(subscriptions', deliveryObj'[d])) = 1
      ]_vars

\* a delivery is queued whose subscription has since been unsubscribed and
\* then subscribed again to another event only: it still names exactly
\* that subscription
C25_Witness ==
    \E q \in DOMAIN wh_queue, i \in DOMAIN subscriptions :
        /\ subscriptions[i].webhook_id = deliveryObj[wh_queue[q]].webhook_id
        /\ deliveryObj[wh_queue[q]].event \notin subscriptions[i].events
        /\ ~subscriptions[i].active
        /\ Len(subscriptions) = 2

(***************************************************************************)
(* C26: the delivery history holds at most max_history deliveries and is   *)
(* evicted oldest first: after any sequence of trigger_event calls and of  *)
(* get_delivery_stats, get_subscription_stats and get_recent_deliveries    *)
(* queries, the deliveries it holds are the most recently created ones.    *)
(***************************************************************************)
C26_HistoryNewest ==
    /\ Len(delivery_history) <= max_history
    /\ Range(delivery_history) =
          {d \in DOMAIN deliveryObj : d > Len(deliveryObj) - max_history}

(***************************************************************************)
(* C27: every status change of a unit is one of pending -> running,        *)
(* running -> completed, running -> retrying, retrying -> pending and      *)
(* running -> failed, the last only with the attempts exhausted; a unit    *)
(* whose worker is in the backoff wait has status retrying, a unit in the  *)
(* queue has status pending, and a unit with status failed keeps it.       *)
(***************************************************************************)
StatusChanges ==
    {<<"pending", "running">>, <<"running", "completed">>,
     <<"running", "retrying">>, <<"retrying", "pending">>,
     <<"running", "failed">>}

C27_StatusMachine ==
    [][/\ \A t \in DOMAIN taskObj :
             taskObj'[t].status /= taskObj[t].status =>
                /\ <<taskObj[t].status, taskObj'[t].status>> \in StatusChanges
                /\ taskObj'[t].status = "failed" =>
                      taskObj'[t].attempts = taskObj'[t].max_attempts
       /\ \A w \in Threads :
             wpc'[w] = "sleep" => taskObj'[wtask'[w]].status = "retrying"
       /\ \A t \in Queued' : taskObj'[t].status = "pending"]_vars

(***************************************************************************)
(* C28: a unit with status completed, or with status failed and attempts   *)
(* equal to max_attempts, is terminal: it is not in the queue and is never *)
(* put there again, no worker executes it again, and its status, attempts, *)
(* result and error never change.                                          *)
(***************************************************************************)
Terminal(t) ==
    \/ taskObj[t].status = "completed"
    \/ /\ taskObj[t].status = "failed"
       /\ taskObj[t].attempts = taskObj[t].max_attempts

C28_TerminalIsFinal ==
    [][\A t \in DOMAIN taskObj :
          Terminal(t) =>
             /\ taskObj'[t] = taskObj[t]
             /\ t \notin Queued /\ t \notin Queued'
             /\ \A w \in Threads :
                   wtask'[w] = t => wpc'[w] \notin {"execute", "func", "sleep"}
      ]_vars

\* one unit ended completed after two failures, the other ended failed with
\* its attempts used up, and steps were taken since both were recorded
C28_Witness ==
    \E t1, t2 \in Submitted :
        /\ Ended(t1) /\ taskObj[t1].status = "completed"
        /\ taskObj[t1].attempts = TaskMaxAttempts
        /\ Ended(t2) /\ taskObj[t2].status = "failed"
        /\ taskObj[t2].attempts = TaskMaxAttempts
        /\ \A w \in Threads : wpc[w] \in {"get", "unborn"}

(***************************************************************************)
(* C29: result and error of a unit are present only in terminal states and *)
(* never both: while the unit is pending, running or waiting for a retry   *)
(* both are unset, and in no state are both set.                           *)
(***************************************************************************)
C29_ResultErrorOnlyTerminal ==
    \A t \in Submitted :
        /\ ~Terminal(t) =>
              (taskObj[t].result = None /\ taskObj[t].error = None)
        /\ ~(taskObj[t].result /= None /\ taskObj[t].error /= None)

(***************************************************************************)
(* C30: stop() prevents new units from starting: once stop() has set the   *)
(* pool to not-running, no worker begins the execution of a unit, wherever *)
(* the workers were in their loop when it did.                             *)
(***************************************************************************)
C30_NoStartAfterStop ==
    [][\A w \in Threads :
          worker_execute_begin(w) => (running \/ ~stop_snap.called)]_vars

(***************************************************************************)
(* C31: the history is accessed under synchronisation: when several        *)
(* workers finish units concurrently, a record leaves the history only as  *)
(* one of its oldest ones: every record a step removes was appended before *)
(* every record the step keeps, so no record is lost between the append    *)
(* and the trim of concurrent _complete_task calls.                        *)
(***************************************************************************)
C31_NoLostRecord ==
    [][\A i \in DOMAIN completed_tasks :
          completed_tasks[i] \notin Range(completed_tasks') =>
             \A j \in DOMAIN completed_tasks :
                completed_tasks[j] \in Range(completed_tasks') => i < j]_vars

(***************************************************************************)
(* Where a task of the TaskQueue is.                                       *)
(***************************************************************************)
TQRecorded(t) ==
    t \in Range(tq_completed_tasks) \cup Range(tq_failed_tasks)

TQPriorityQueued(t) ==
    \E i \in DOMAIN tq_priority_queue : tq_priority_queue[i][2] = t

\* the threads of the TaskQueue that were started and have not left _worker
TQLive == {w \in Threads : tqpc[w] \in {"loop", "get", "func"}}

\* start() has returned after a stop(): the queue runs its second set of
\* threads
TQRestarted == tq_running /\ Len(tq_workers) > max_workers

(***************************************************************************)
(* C35: every task added with enqueue_priority to a started TaskQueue is   *)
(* eventually executed by a worker and recorded in completed_tasks or      *)
(* failed_tasks (as long as the queue is not stopped).                     *)
(***************************************************************************)
C35_PriorityTaskExecuted ==
    \A t \in 1..MaxTasksTQ :
        (tq_running /\ TQPriorityQueued(t)) ~> (TQRecorded(t) \/ ~tq_running)

(***************************************************************************)
(* C40: the TaskQueue can be restarted: after stop() followed by start(),  *)
(* whatever the workers were doing at the stop, the queue has max_workers  *)
(* live workers again once the None entries of the stop are consumed, and  *)
(* every task enqueued is eventually executed.                             *)
(***************************************************************************)
C40_RestartedTaskExecuted ==
    \A t \in 1..MaxTasksTQ :
        []((TQRestarted /\ t \notin DOMAIN tqObj) =>
              [](t \in Range(tq_queue) => <>(TQRecorded(t) \/ ~tq_running)))

\* C40, the number of workers alone: once start() has returned after a
\* stop() and the None entries of that stop are consumed, exactly
\* max_workers threads are in _worker
RestartRestoresWorkers ==
    (TQRestarted /\ tq_stop_i = 0 /\ 0 \notin Range(tq_queue)) =>
        Cardinality(TQLive) = max_workers

(***************************************************************************)
(* C34: created_at and completed_at of a unit are each set at most once    *)
(* over its life, completed_at only when the unit reaches a terminal       *)
(* state; started_at alone is overwritten, once per execution attempt.     *)
(***************************************************************************)
C34_TimestampsSetOnce ==
    [][\A t \in DOMAIN taskObj :
          /\ taskObj'[t].created_at = taskObj[t].created_at
          /\ taskObj[t].completed_at /= NoTime =>
                /\ taskObj'[t].completed_at = taskObj[t].completed_at
                /\ \A w \in Threads :
                      ~(worker_execute_end(w) /\ wtask[w] = t)
          /\ taskObj'[t].completed_at /= NoTime => Terminal(t)'
          /\ (\E w \in Threads : worker_execute_begin(w) /\ wtask[w] = t)
                => taskObj'[t].started_at = clock]_vars

(***************************************************************************)
(* C36: every record in the pool's history is terminal (completed, or      *)
(* failed with attempts = max_attempts) and its id is not in the active    *)
(* map at the same time; therefore get_queue_stats reports                 *)
(* completed = successful + failed whenever it returns.                    *)
(***************************************************************************)
C36_StatsAddUp ==
    /\ \A i \in DOMAIN completed_tasks :
          /\ Terminal(completed_tasks[i])
          /\ taskObj[completed_tasks[i]].task_id \notin DOMAIN tasks
    /\ qstats.returned =>
          qstats.value.completed
             = qstats.value.successful + qstats.value.failed

\* the two facts about the history alone
HistoryTerminalInactive ==
    \A i \in DOMAIN completed_tasks :
        /\ Terminal(completed_tasks[i])
        /\ taskObj[completed_tasks[i]].task_id \notin DOMAIN tasks

(***************************************************************************)
(* C37: get_recent_deliveries is a pure query: with or without a           *)
(* webhook_id filter it leaves delivery_history unchanged in content and   *)
(* in order, and it returns at most limit deliveries, newest first.        *)
(***************************************************************************)
C37_RecentDeliveriesPure ==
    [][\A webhook_id \in HookIds \cup {None}, limit \in {1, 100} :
          get_recent_deliveries(webhook_id, limit) =>
             /\ delivery_history' = delivery_history
             /\ Len(wh_ret'.value) <= limit
             /\ \A i, j \in DOMAIN wh_ret'.value :
                   i < j => wh_ret'.value[i] >= wh_ret'.value[j]]_vars

\* the deliveries of webhook_id among those numbered above n
DeliveriesAfter(objs, webhook_id, n) ==
    {d \in DOMAIN objs : d > n /\ objs[d].webhook_id = webhook_id}

(***************************************************************************)
(* C39: subscribe on an id that was unsubscribed before makes that         *)
(* subscription active again with the url, events and secret of the new    *)
(* call, as the only entry of that id; a following trigger of one of its   *)
(* events creates exactly one delivery for the id, to that url and with    *)
(* that secret.                                                            *)
(***************************************************************************)
C39_ResubscribeActivates ==
    [][/\ \A webhook_id \in HookIds, events \in EventLists :
            (/\ subscribe(webhook_id, SecondEndpoint.url, events,
                          SecondEndpoint.secret)
             /\ \E i \in DOMAIN subscriptions :
                   /\ subscriptions[i].webhook_id = webhook_id
                   /\ ~subscriptions[i].active)
            => /\ Len(subscriptions') = Len(subscriptions)
               /\ \E i \in DOMAIN subscriptions' :
                     /\ subscriptions'[i] =
                           [webhook_id |-> webhook_id,
                            url |-> SecondEndpoint.url,
                            events |-> events,
                            secret |-> SecondEndpoint.secret,
                            active |-> TRUE]
                     /\ \A j \in DOMAIN subscriptions' :
                           subscriptions'[j].webhook_id = webhook_id => j = i
      /\ \A event \in EventNames :
            trigger_event(event, "data") =>
               \A i \in DOMAIN subscriptions :
                  (/\ subscriptions[i].url = SecondEndpoint.url
                   /\ subscriptions[i].active
                   /\ event \in subscriptions[i].events)
                  => \E d \in DOMAIN deliveryObj' :
                        /\ DeliveriesAfter(deliveryObj',
                                           subscriptions[i].webhook_id,
                                           Len(deliveryObj)) = {d}
                        /\ deliveryObj'[d].url = SecondEndpoint.url
                        /\ deliveryObj'[d].secret = SecondEndpoint.secret
                        /\ deliveryObj'[d].event = event]_vars

\* an id had a delivery to the first endpoint, was unsubscribed, was
\* subscribed again with the second endpoint, and the trigger after that
\* created its one delivery to the second endpoint, with the secret
C39_Witness ==
    \E i \in DOMAIN subscriptions, d0, d \in DOMAIN deliveryObj :
        LET id == subscriptions[i].webhook_id
        IN /\ subscriptions[i].active
           /\ subscriptions[i].url = SecondEndpoint.url
           /\ deliveryObj[d0].webhook_id = id
           /\ deliveryObj[d0].url = FirstEndpoint.url
           /\ DeliveriesAfter(deliveryObj, id, d0) = {d}
           /\ deliveryObj[d].url = SecondEndpoint.url
           /\ deliveryObj[d].secret = SecondEndpoint.secret

\* where a unit of the generic pool is: the number of its queue entries,
\* the workers executing it, the workers in its backoff wait
TaskInQueue(t) == Cardinality({i \in DOMAIN queue : queue[i][2] = t})
TaskExecutingOn(t) ==
    {w \in Threads : wtask[w] = t /\ wpc[w] \in {"execute", "func"}}
TaskBackoffOn(t) == {w \in Threads : wtask[w] = t /\ wpc[w] = "sleep"}
TaskPlaces(t) ==
    TaskInQueue(t) + Cardinality(TaskExecutingOn(t))
       + Cardinality(TaskBackoffOn(t))

\* the same for a delivery of the webhook dispatcher; a delivery is
\* finished when it is delivered, or when its last attempt has ended
DeliveryInQueue(d) == Cardinality({i \in DOMAIN wh_queue : wh_queue[i] = d})
DeliveryExecutingOn(d) ==
    {w \in Threads : whtask[w] = d /\ whpc[w] \in {"send", "post"}}
DeliveryBackoffOn(d) == {w \in Threads : whtask[w] = d /\ whpc[w] = "sleep"}
DeliveryPlaces(d) ==
    DeliveryInQueue(d) + Cardinality(DeliveryExecutingOn(d))
       + Cardinality(DeliveryBackoffOn(d))
DeliveryFinished(d) ==
    \/ deliveryObj[d].status = "delivered"
    \/ /\ deliveryObj[d].attempts >= deliveryObj[d].max_attempts
       /\ \A w \in Threads : ~(whtask[w] = d /\ whpc[w] = "post")

DispatcherWorkersBusy ==
    \E w1, w2 \in Threads :
        /\ w1 /= w2
        /\ whpc[w1] = "sleep" /\ whpc[w2] = "post"
        /\ whtask[w1] /= whtask[w2]

\* the part of C32 that does not depend on what counts as finished
AtMostOnePlace ==
    /\ \A t \in DOMAIN taskObj : TaskPlaces(t) <= 1
    /\ \A d \in DOMAIN deliveryObj : DeliveryPlaces(d) <= 1

\* the deliveries of a list that used all their attempts without a 2xx
\* response
Exhausted(ds) ==
    {i \in DOMAIN ds : /\ deliveryObj[ds[i]].status /= "delivered"
                       /\ DeliveryFinished(ds[i])}

\* no delivery of the history is waiting for a retry or being sent
NoRetryWaiting ==
    \A i \in DOMAIN delivery_history :
        \/ DeliveryPlaces(delivery_history[i]) = 0
        \/ deliveryObj[delivery_history[i]].attempts = 0

(***************************************************************************)
(* C38: every delivery in the history that has used all max_attempts       *)
(* attempts without a 2xx response is counted as failed by                 *)
(* get_delivery_stats and get_subscription_stats, whatever the kind of its *)
(* last failure, so that delivered + failed + pending = total once no      *)
(* delivery is waiting for a retry.                                        *)
(***************************************************************************)
C38_ExhaustedCountedFailed ==
    [][/\ get_delivery_stats =>
            /\ wh_ret'.value.failed
                  >= Cardinality(Exhausted(delivery_history))
            /\ NoRetryWaiting =>
                  wh_ret'.value.delivered + wh_ret'.value.failed
                     + wh_ret'.value.pending = wh_ret'.value.total
       /\ get_subscription_stats("S1") =>
            wh_ret'.value.failed
               >= Cardinality(Exhausted(OfWebhook(delivery_history, "S1")))
      ]_vars

(***************************************************************************)
(* C33: the backoff wait of a failed unit is spent on the worker that      *)
(* executed the failed attempt: while a worker is in the wait it holds the *)
(* failed unit and does nothing but end the wait, the unit is not in the   *)
(* queue, and a unit that has been attempted enters the queue only when    *)
(* the worker holding it ends its wait; with a single worker no unit       *)
(* starts an attempt while that worker waits.  For both pools.             *)
(***************************************************************************)
C33_BackoffOnWorker ==
    [][/\ \A w \in Threads :
            wpc[w] = "sleep" =>
               /\ taskObj[wtask[w]].status = "failed"
               /\ TaskInQueue(wtask[w]) = 0
               /\ wsleep[w] = backoff(taskObj[wtask[w]])
               /\ \/ wpc'[w] = "sleep" /\ wtask'[w] = wtask[w]
                  \/ /\ worker_requeue(w)
                     /\ Cardinality({i \in DOMAIN queue' :
                                       queue'[i][2] = wtask[w]}) = 1
       /\ \A t \in DOMAIN taskObj :
            (/\ taskObj[t].attempts >= 1
             /\ Cardinality({i \in DOMAIN queue' : queue'[i][2] = t})
                   > TaskInQueue(t))
            => \E w \in Threads :
                  wpc[w] = "sleep" /\ wtask[w] = t /\ worker_requeue(w)
       /\ \A w \in Threads :
            (worker_execute_begin(w) /\ Len(workers) = 1)
            => \A w2 \in Threads : wpc[w2] /= "sleep"
       /\ \A w \in Threads :
            whpc[w] = "sleep" =>
               /\ deliveryObj[whtask[w]].status
                     \notin {"pending", "delivered"}
               /\ DeliveryInQueue(whtask[w]) = 0
               /\ whsleep[w] = get_retry_delay(deliveryObj[whtask[w]])
               /\ \/ whpc'[w] = "sleep" /\ whtask'[w] = whtask[w]
                  \/ /\ wh_worker_requeue(w)
                     /\ Cardinality({i \in DOMAIN wh_queue' :
                                       wh_queue'[i] = whtask[w]}) = 1
       /\ \A d \in DOMAIN deliveryObj :
            (/\ deliveryObj[d].attempts >= 1
             /\ Cardinality({i \in DOMAIN wh_queue' : wh_queue'[i] = d})
                   > DeliveryInQueue(d))
            => \E w \in Threads :
                  whpc[w] = "sleep" /\ whtask[w] = d /\ wh_worker_requeue(w)
       /\ \A w \in Threads :
            (wh_worker_send_begin(w) /\ Len(wh_workers) = 1)
            => \A w2 \in Threads : whpc[w2] /= "sleep"
      ]_vars

\* the single worker of the generic pool is in the backoff wait of a unit
\* it has executed twice, while another unit waits in the queue, unstarted
C33_Witness ==
    /\ Len(workers) = 1
    /\ wpc[1] = "sleep"
    /\ taskObj[wtask[1]].attempts = 2
    /\ wsleep[1] = 4
    /\ \E t \in DOMAIN taskObj :
          /\ t /= wtask[1]
          /\ TaskInQueue(t) = 1
          /\ taskObj[t].status = "pending"

\* the same for the single worker of the dispatcher
SingleDispatcherWaits ==
    /\ Len(wh_workers) = 1
    /\ whpc[1] = "sleep"
    /\ \E d \in DOMAIN deliveryObj :
          /\ d /= whtask[1]
          /\ DeliveryInQueue(d) = 1
          /\ deliveryObj[d].status = "pending"

====
